---- MODULE Spec2Model ----
(***************************************************************************)
(* Redis read-through cache for restaurant records                         *)
(* (src/protocols/task9/redis.py) in front of a mutable restaurant store   *)
(* (the read side of MockRestaurantDatabase, the write side of             *)
(* RestaurantDatabase in src/protocols/task8/grpc_server.py).              *)
(*                                                                         *)
(* Conventions                                                             *)
(*  - Python str is a TLA+ string; Len, SubSeq and \o act on it.           *)
(*  - A float with one decimal (a rating) is the integer number of tenths: *)
(*    4.8 is 48.                                                           *)
(*  - Optional[x] is a sequence of length 0 (None) or 1.                   *)
(*  - A Python value handed to the codec is [t, v]: t the Python type,     *)
(*    v the sequence of records it holds.                                  *)
(*  - A record keeps the fields the cache service and the search read:     *)
(*    restaurant_id, name, description, cuisine_type, rating.              *)
(***************************************************************************)
EXTENDS Integers, Sequences, FiniteSets, TLC

VARIABLES
    restaurants,         \* self.db.restaurants: the records, in dict insertion order
    cache,               \* the Redis keyspace: key -> [payload, ttl, src]
    redis_client,        \* FALSE when self.redis_client is None
    default_expiration,  \* self.default_expiration
    last,                \* the call that was made last, with what it did and returned
    nops,                \* calls made so far
    procs,               \* the get_restaurant calls in progress, one per thread
    rows,                \* Restaurant.objects: the rows of the Django table, by id
    reachable,           \* whether the Redis server answers
    db_restaurants,      \* RestaurantDatabase.restaurants: key -> the dict object stored
    heap,                \* the dict objects the callers and the database hold, by address
    now,                 \* what datetime.now() returns
    is_connected,        \* MQTTRestaurantOrderSystem.is_connected
    subscriptions,       \* the topic filters the broker holds for the client
    inbox,               \* PUBLISH messages delivered to the client, on_message pending
    received,            \* the payloads on_message was called with, in order
    published,           \* the messages the client handed to client.publish, in order
    handling             \* position of on_message in the loop over the statuses, 0 outside

\* RestaurantDatabase of the gRPC service, with the clock it reads
database == <<db_restaurants, heap, now>>

\* the MQTT client and its broker
mqtt == <<is_connected, subscriptions, inbox, received, published, handling>>

vars == <<restaurants, cache, redis_client, default_expiration, last, nops, procs, rows,
          reachable, database, mqtt>>

(***************************************************************************)
(* Bounds of the model                                                     *)
(***************************************************************************)
\* number of calls in one run
MaxOps == 3

\* the latest time the clock shows
MaxClock == 2

\* number of messages the publishers send in one run
MaxMessages == 2

(***************************************************************************)
(* Python strings                                                          *)
(***************************************************************************)
\* the characters the model's strings use, in code point order
Alphabet == " +,-0123456789:ABCDEFGHIJKLMNOPQRSTUVWXYZ_abcdefghijklmnopqrstuvwxyz"

UpperCase == "ABCDEFGHIJKLMNOPQRSTUVWXYZ"

LowerCase == "abcdefghijklmnopqrstuvwxyz"

Char(s, i) == SubSeq(s, i, i)

\* position of a one-character string in a string, 0 when it is not there
IndexIn(c, s) ==
    IF \E i \in 1..Len(s) : Char(s, i) = c
    THEN CHOOSE i \in 1..Len(s) : Char(s, i) = c
    ELSE 0

\* ord(c), up to an order-preserving renumbering
Ord(c) == IndexIn(c, Alphabet)

LowerChar(c) ==
    IF IndexIn(c, UpperCase) > 0 THEN Char(LowerCase, IndexIn(c, UpperCase)) ELSE c

RECURSIVE Lower(_)
\* str.lower()
Lower(s) == IF Len(s) = 0 THEN "" ELSE LowerChar(Char(s, 1)) \o Lower(SubSeq(s, 2, Len(s)))

\* needle in hay
Contains(needle, hay) ==
    \E i \in 1..(Len(hay) - Len(needle) + 1) : SubSeq(hay, i, i + Len(needle) - 1) = needle

StartsWith(s, prefix) ==
    Len(prefix) <= Len(s) /\ SubSeq(s, 1, Len(prefix)) = prefix

RECURSIVE StrLess(_, _)
\* a < b on str: lexicographic by code point
StrLess(a, b) ==
    IF Len(b) = 0 THEN FALSE
    ELSE IF Len(a) = 0 THEN TRUE
    ELSE IF Char(a, 1) = Char(b, 1) THEN StrLess(SubSeq(a, 2, Len(a)), SubSeq(b, 2, Len(b)))
    ELSE Ord(Char(a, 1)) < Ord(Char(b, 1))

Digits == "0123456789"

RECURSIVE IntStr(_)
\* str(n) for an int n >= 0
IntStr(n) == IF n < 10 THEN Char(Digits, n + 1) ELSE IntStr(n \div 10) \o Char(Digits, (n % 10) + 1)

\* faulty variant of FloatStr: a float without a fraction is written as an int
FloatStr_integral(n) ==
    IF n % 10 = 0 THEN IntStr(n \div 10)
    ELSE IntStr(n \div 10) \o "." \o Char(Digits, (n % 10) + 1)

\* str(x) for a float x >= 0 with one decimal, given in tenths: 40 is "4.0"
FloatStr(n) == IntStr(n \div 10) \o "." \o Char(Digits, (n % 10) + 1)

RECURSIVE Join(_, _)
\* sep.join(parts)
Join(sep, parts) ==
    IF parts = <<>> THEN ""
    ELSE IF Len(parts) = 1 THEN parts[1]
    ELSE parts[1] \o sep \o Join(sep, Tail(parts))

(***************************************************************************)
(* Python values                                                           *)
(***************************************************************************)
None == <<>>

Some(x) == <<x>>

PyNone == [t |-> "none", v |-> <<>>]

PyDict(r) == [t |-> "dict", v |-> <<r>>]

PyList(s) == [t |-> "list", v |-> s]

\* Optional[Dict] as a Python value
PyOpt(o) == IF o = None THEN PyNone ELSE PyDict(o[1])

\* bool(x) for None, a dict with fields, a list
Truthy(x) == x.t = "dict" \/ (x.t = "list" /\ Len(x.v) > 0)

\* a keyword argument's value: a str or a float (in tenths)
StrVal(s) == [t |-> "str", s |-> s, n |-> 0]

FloatVal(n) == [t |-> "float", s |-> "", n |-> n]

\* f"{v}"
Format(v) == IF v.t = "str" THEN v.s ELSE FloatStr(v.n)

(***************************************************************************)
(* Cache Key Composer: RestaurantRedisCache._generate_cache_key            *)
(***************************************************************************)
\* one item of kwargs.items(): the keyword and its value
Item(k, v) == [k |-> k, v |-> v]

\* (k1, v1) < (k2, v2) on tuples; the keywords of one call differ, so the
\* values are never compared
ItemLess(a, b) == StrLess(a.k, b.k)

RECURSIVE InsertSorted(_, _)
InsertSorted(item, s) ==
    IF s = <<>> THEN <<item>>
    ELSE IF ItemLess(item, s[1]) THEN <<item>> \o s
    ELSE <<s[1]>> \o InsertSorted(item, Tail(s))

\* faulty variant of Sorted: the items are left in the order they were supplied in
Sorted_unsorted(items) == items

RECURSIVE Sorted(_)
\* sorted(kwargs.items()): stable, ascending
Sorted(items) ==
    IF items = <<>> THEN <<>>
    ELSE InsertSorted(items[Len(items)], Sorted(SubSeq(items, 1, Len(items) - 1)))

\* '_'.join([f"{k}:{v}" for k, v in sorted_params])
ParamString(sorted_params) ==
    Join("_", [i \in 1..Len(sorted_params) |->
                  sorted_params[i].k \o ":" \o Format(sorted_params[i].v)])

\* kwargs is the sequence of keyword arguments in the order they were supplied
_generate_cache_key(prefix, identifier, kwargs) ==
    LET key_parts == IF kwargs # <<>>
                     THEN <<prefix, identifier, ParamString(Sorted(kwargs))>>
                     ELSE <<prefix, identifier>>
    IN  Join(":", key_parts)

(***************************************************************************)
(* Serialization Codec: _serialize_data / _deserialize_data                *)
(* A Python object is a scalar [t, s, n] (StrVal, FloatVal, IntVal,        *)
(* BoolVal, NoneVal, DateTimeVal) or a container [t, v]: a list or tuple   *)
(* of objects, or a dict holding one record of objects by field name.      *)
(* A JSON text is the tree of its tokens: [j, lit] for a string, a number  *)
(* (lit its digits), true, false, null; [j, v] for an array or an object.  *)
(***************************************************************************)
IntVal(n) == [t |-> "int", s |-> "", n |-> n]

BoolVal(b) == [t |-> "bool", s |-> "", n |-> IF b THEN 1 ELSE 0]

NoneVal == [t |-> "NoneType", s |-> "", n |-> 0]

\* a datetime object; s is str() of it
DateTimeVal(text) == [t |-> "datetime", s |-> text, n |-> 0]

TupleVal(items) == [t |-> "tuple", v |-> items]

RECURSIVE ParseInt(_)
\* int(lit) for a string of digits
ParseInt(lit) ==
    IF Len(lit) = 0 THEN 0
    ELSE 10 * ParseInt(SubSeq(lit, 1, Len(lit) - 1)) + (IndexIn(Char(lit, Len(lit)), Digits) - 1)

\* float(lit) in tenths, for digits "." digit
ParseFloat(lit) ==
    LET dot == IndexIn(".", lit)
    IN  10 * ParseInt(SubSeq(lit, 1, dot - 1)) + ParseInt(SubSeq(lit, dot + 1, dot + 1))

RECURSIVE json_dumps(_)
\* json.dumps(obj, default=str, ensure_ascii=False)
json_dumps(obj) ==
    CASE obj.t = "str"      -> [j |-> "string", lit |-> obj.s]
      [] obj.t = "float"    -> [j |-> "number", lit |-> FloatStr(obj.n)]
      [] obj.t = "int"      -> [j |-> "number", lit |-> IntStr(obj.n)]
      [] obj.t = "bool"     -> [j |-> IF obj.n = 1 THEN "true" ELSE "false", lit |-> ""]
      [] obj.t = "NoneType" -> [j |-> "null", lit |-> ""]
      [] obj.t \in {"list", "tuple"}
                            -> [j |-> "array",
                                v |-> [i \in 1..Len(obj.v) |-> json_dumps(obj.v[i])]]
      [] obj.t = "dict"     -> [j |-> "object",
                                v |-> << [f \in DOMAIN obj.v[1] |-> json_dumps(obj.v[1][f])] >>]
      [] OTHER              -> [j |-> "string", lit |-> obj.s]

\* what json.loads raising JSONDecodeError is modelled as
DecodeError == [t |-> "error", v |-> <<>>]

RECURSIVE json_loads(_)
\* json.loads(s)
json_loads(text) ==
    CASE text.j = "string" -> StrVal(text.lit)
      [] text.j = "number" -> IF IndexIn(".", text.lit) > 0
                              THEN FloatVal(ParseFloat(text.lit))
                              ELSE IntVal(ParseInt(text.lit))
      [] text.j = "true"   -> BoolVal(TRUE)
      [] text.j = "false"  -> BoolVal(FALSE)
      [] text.j = "null"   -> NoneVal
      [] text.j = "array"  -> [t |-> "list",
                               v |-> [i \in 1..Len(text.v) |-> json_loads(text.v[i])]]
      [] text.j = "object" -> [t |-> "dict",
                               v |-> << [f \in DOMAIN text.v[1] |-> json_loads(text.v[1][f])] >>]
      [] OTHER             -> DecodeError

\* RestaurantRedisCache._serialize_data
_serialize_data(data) == json_dumps(data)

\* RestaurantRedisCache._deserialize_data
_deserialize_data(data) == json_loads(data)

\* a stored payload that is not JSON
InvalidText == [j |-> "invalid", lit |-> ""]

\* the Python object of a value of the model: a record's rating is a float,
\* its other fields are str
ObjectOfRecord(r) ==
    [t |-> "dict",
     v |-> << [f \in DOMAIN r |-> IF f = "rating" THEN FloatVal(r[f]) ELSE StrVal(r[f])] >>]

ObjectOf(x) ==
    IF x.t = "dict" THEN ObjectOfRecord(x.v[1])
    ELSE IF x.t = "list" THEN [t |-> "list", v |-> [i \in 1..Len(x.v) |-> ObjectOfRecord(x.v[i])]]
    ELSE NoneVal

\* the value of the model of a Python object made of such records
RecordOfObject(obj) ==
    [f \in DOMAIN obj.v[1] |-> IF obj.v[1][f].t = "str" THEN obj.v[1][f].s ELSE obj.v[1][f].n]

ValueOf(obj) ==
    IF obj.t = "dict" THEN PyDict(RecordOfObject(obj))
    ELSE IF obj.t = "list" THEN PyList([i \in 1..Len(obj.v) |-> RecordOfObject(obj.v[i])])
    ELSE IF obj.t = "NoneType" THEN PyNone
    ELSE DecodeError

(***************************************************************************)
(* Inputs of the model                                                     *)
(***************************************************************************)
\* the id add_restaurant draws: "rest_" + uuid4().hex[:8]
NewIds == {"rest_9f8a1c3d"}

\* the ids the callers ask for: two seeded ones and one that is not seeded
CallIds == {"rest_001", "rest_002"} \cup NewIds

\* the record add_restaurant is given
NewRecords ==
    { [name |-> "Pizza Plaza", description |-> "Wood fired pizza",
       cuisine_type |-> "Italian", rating |-> 45] }

\* the partial records update_restaurant is given
Updates == { [rating |-> 39], [name |-> "Pizza Spoon", cuisine_type |-> "italian"] }

\* the values set_expiration is given
Expirations == {1, 2, 7}

\* the seconds that pass in one step of the clock
TickSteps == {1, 900, 3600}

\* the searches the callers make: the demo's; the spec's example; one the
\* rating bound decides; one in upper case; one that only a description
\* matches, with an empty cuisine filter
SearchCalls ==
    { <<"pizza", None, 40>>,
      <<"a", Some("Italian"), 40>>,
      <<"a", None, 49>>,
      <<"SUSHI", Some("JAPANESE"), 0>>,
      <<"twist", Some(""), 0>> }

\* searches that differ from one another in one argument only: in the
\* cuisine filter (none, empty, "any", a cuisine), in the minimum rating, in
\* the query
KeySearchCalls ==
    { <<"a", None, 0>>,
      <<"a", Some(""), 0>>,
      <<"a", Some("any"), 0>>,
      <<"a", Some("Italian"), 0>>,
      <<"a", None, 49>>,
      <<"pizza", None, 0>> }

Queries == {a[1] : a \in SearchCalls \cup KeySearchCalls}

CuisineFilters == {a[2] : a \in SearchCalls \cup KeySearchCalls}

MinRatings == {a[3] : a \in SearchCalls \cup KeySearchCalls}

(***************************************************************************)
(* Source-of-Record Store                                                  *)
(***************************************************************************)
\* MockRestaurantDatabase.__init__: the three seeded records
SeedRestaurants ==
    << [restaurant_id |-> "rest_001", name |-> "The Golden Spoon",
        description |-> "Authentic Italian cuisine with a modern twist",
        cuisine_type |-> "Italian", rating |-> 48],
       [restaurant_id |-> "rest_002", name |-> "Sushi Sensation",
        description |-> "Fresh sushi and traditional Japanese dishes",
        cuisine_type |-> "Japanese", rating |-> 49],
       [restaurant_id |-> "rest_003", name |-> "Burger Barn",
        description |-> "Gourmet burgers and craft beer",
        cuisine_type |-> "American", rating |-> 46] >>

\* position of the record stored under id, 0 when there is none
IndexOf(rs, id) ==
    IF \E i \in 1..Len(rs) : rs[i].restaurant_id = id
    THEN CHOOSE i \in 1..Len(rs) : rs[i].restaurant_id = id
    ELSE 0

\* MockRestaurantDatabase.get_restaurant: self.restaurants.get(restaurant_id)
db_get_restaurant(rs, restaurant_id) ==
    IF IndexOf(rs, restaurant_id) = 0 THEN None ELSE Some(rs[IndexOf(rs, restaurant_id)])

\* MockRestaurantDatabase.get_all_restaurants: list(self.restaurants.values())
db_get_all_restaurants(rs) == rs

\* the strings the records, the queries and the filters of the model hold
TextsOf(r) == {r[f] : f \in DOMAIN r \cap {"name", "description", "cuisine_type"}}

Texts ==
    UNION ( {TextsOf(SeedRestaurants[i]) : i \in 1..Len(SeedRestaurants)}
            \cup {TextsOf(r) : r \in NewRecords \cup Updates} )
    \cup Queries \cup {c[1] : c \in CuisineFilters \ {None}}

\* s.lower(), computed once for every string of the model
LowerOf == [s \in Texts |-> Lower(s)]

\* a.lower() in b.lower(), computed once for every pair of strings of the model
LowerIn == [a \in Queries |-> [b \in Texts |-> Contains(LowerOf[a], LowerOf[b])]]

\* faulty variant of SearchKeeps: the rating bound is strict (<= for <)
SearchKeeps_strict(restaurant, query, cuisine_type, min_rating) ==
    /\ LowerIn[query][restaurant.name] \/ LowerIn[query][restaurant.description]
    /\ ~(cuisine_type # None /\ cuisine_type[1] # ""
         /\ LowerOf[restaurant.cuisine_type] # LowerOf[cuisine_type[1]])
    /\ ~(restaurant.rating <= min_rating)

\* the body of the loop of MockRestaurantDatabase.search_restaurants:
\* whether the record is appended to results
SearchKeeps(restaurant, query, cuisine_type, min_rating) ==
    IF LowerIn[query][restaurant.name] \/ LowerIn[query][restaurant.description]
    THEN IF cuisine_type # None /\ cuisine_type[1] # ""
              /\ LowerOf[restaurant.cuisine_type] # LowerOf[cuisine_type[1]]
         THEN FALSE
         ELSE IF restaurant.rating < min_rating THEN FALSE ELSE TRUE
    ELSE FALSE

RECURSIVE db_search_restaurants(_, _, _, _)
\* MockRestaurantDatabase.search_restaurants: one pass over the values, in order
db_search_restaurants(rs, query, cuisine_type, min_rating) ==
    IF rs = <<>> THEN <<>>
    ELSE (IF SearchKeeps(rs[1], query, cuisine_type, min_rating) THEN <<rs[1]>> ELSE <<>>)
         \o db_search_restaurants(Tail(rs), query, cuisine_type, min_rating)

\* dict.update: the fields of data replace or extend those of old
DictUpdate(old, data) ==
    [f \in DOMAIN old \cup DOMAIN data |-> IF f \in DOMAIN data THEN data[f] ELSE old[f]]

\* self.restaurants[restaurant_id] = record: in place when the key exists,
\* appended otherwise
DictSet(rs, restaurant_id, record) ==
    IF IndexOf(rs, restaurant_id) = 0 THEN Append(rs, record)
    ELSE [rs EXCEPT ![IndexOf(rs, restaurant_id)] = record]

\* RestaurantDatabase.add_restaurant, with the uuid it draws given as new_id
db_add_restaurant(rs, new_id, restaurant_data) ==
    DictSet(rs, new_id, DictUpdate(restaurant_data, [restaurant_id |-> new_id]))

\* RestaurantDatabase.update_restaurant: the store after the call (unchanged
\* when it returns False)
db_update_restaurant(rs, restaurant_id, restaurant_data) ==
    IF IndexOf(rs, restaurant_id) = 0 THEN rs
    ELSE DictSet(rs, restaurant_id,
                 DictUpdate(rs[IndexOf(rs, restaurant_id)],
                            DictUpdate(restaurant_data, [restaurant_id |-> restaurant_id])))

\* RestaurantDatabase.delete_restaurant: the store after the call
db_delete_restaurant(rs, restaurant_id) ==
    SelectSeq(rs, LAMBDA r : r.restaurant_id # restaurant_id)

(***************************************************************************)
(* The Redis backend                                                       *)
(* An entry is [payload, ttl, src]: the stored text, the seconds it has    *)
(* left, and (history) the value the call that wrote it returned.          *)
(***************************************************************************)
\* REDIS_* / DEFAULT_EXPIRATION
DEFAULT_EXPIRATION == 3600

EmptyCache == [k \in {} |-> 0]

\* faulty variant of redis_get: nothing is ever found
redis_get_absent(c, key) == None

\* GET key: the stored text, or None
redis_get(c, key) == IF key \in DOMAIN c THEN Some(c[key].payload) ELSE None

\* faulty variant of redis_setex: the write is lost
redis_setex_dropped(c, key, ttl, payload, src) == c

\* SETEX key ttl value, for ttl >= 1 (the server refuses any other ttl)
redis_setex(c, key, ttl, payload, src) ==
    [k \in DOMAIN c \cup {key} |->
        IF k = key THEN [payload |-> payload, ttl |-> ttl, src |-> src] ELSE c[k]]

\* DEL key [key ...]: the keyspace after it
redis_delete(c, keys) == [k \in DOMAIN c \ keys |-> c[k]]

\* glob match for the patterns the service uses: a literal followed by one *
GlobMatch(pattern, key) ==
    IF Len(pattern) > 0 /\ Char(pattern, Len(pattern)) = "*"
    THEN StartsWith(key, SubSeq(pattern, 1, Len(pattern) - 1))
    ELSE key = pattern

\* KEYS pattern
redis_keys(c, pattern) == {k \in DOMAIN c : GlobMatch(pattern, k)}

\* the backend calls of one handler that raise (connection lost, timeout)
FaultSets == {{}, {"get"}, {"setex"}, {"get", "setex"}}

(***************************************************************************)
(* Cache Engine / facade: RestaurantRedisCache                             *)
(***************************************************************************)
\* the "try cache first" block of the three read handlers (lines 273-282,
\* 307-314, 346-353): the GET, the truth test of what it returned, the decode
CacheTry(cache_key, use_cache, faults) ==
    LET tried == use_cache /\ redis_client
        get_raised == tried /\ "get" \in faults
        cached_data == IF tried /\ ~get_raised THEN redis_get(cache, cache_key) ELSE None
        decoded == IF cached_data # None
                   THEN ValueOf(_deserialize_data(cached_data[1]))
                   ELSE PyNone
    IN  [hit |-> cached_data # None /\ decoded.t # "error",
         value |-> decoded,
         get_raised |-> get_raised,
         decode_failed |-> cached_data # None /\ decoded.t = "error",
         miss |-> tried /\ ~get_raised /\ cached_data = None]

\* the "store in cache" try block (lines 289-298, 321-330, 360-369): the
\* encode and the SETEX; an exception of either is logged and dropped
CacheStore(cache_key, ttl, data, faults) ==
    LET serialized_data == _serialize_data(ObjectOf(data))
        setex_raised == "setex" \in faults \/ ttl < 1
    IN  [cache |-> IF setex_raised THEN cache
                   ELSE redis_setex(cache, cache_key, ttl, serialized_data, data),
         setex_raised |-> setex_raised,
         wrote |-> ~setex_raised]

NoStore == [cache |-> cache, setex_raised |-> FALSE, wrote |-> FALSE]

\* faulty variant of ReadOutcome: the GET is not guarded, so its exception reaches the
\* caller and nothing is returned
ReadOutcome_unguarded(cache_key, ttl, try, data, store) ==
    [ret |-> IF try.hit THEN try.value ELSE IF try.get_raised THEN PyNone ELSE data,
     cache |-> IF try.hit \/ try.get_raised THEN cache ELSE store.cache,
     raised |-> try.get_raised, hit |-> try.hit,
     miss |-> try.miss, db_queried |-> ~try.hit /\ ~try.get_raised,
     get_raised |-> try.get_raised, decode_failed |-> try.decode_failed,
     setex_raised |-> ~try.hit /\ ~try.get_raised /\ store.setex_raised,
     wrote |-> ~try.hit /\ ~try.get_raised /\ store.wrote,
     key |-> cache_key, ttl |-> ttl]

\* what a read handler did: its return value, the keyspace it leaves, and how
\* it got there
ReadOutcome(cache_key, ttl, try, data, store) ==
    IF try.hit
    THEN [ret |-> try.value, cache |-> cache, raised |-> FALSE, hit |-> TRUE,
          miss |-> FALSE, db_queried |-> FALSE, get_raised |-> FALSE,
          decode_failed |-> FALSE, setex_raised |-> FALSE, wrote |-> FALSE,
          key |-> cache_key, ttl |-> ttl]
    ELSE [ret |-> data, cache |-> store.cache, raised |-> FALSE, hit |-> FALSE,
          miss |-> try.miss, db_queried |-> TRUE, get_raised |-> try.get_raised,
          decode_failed |-> try.decode_failed, setex_raised |-> store.setex_raised,
          wrote |-> store.wrote, key |-> cache_key, ttl |-> ttl]

\* the expiration get_restaurant passes to SETEX
RecordTTL == default_expiration

\* faulty variant of BulkTTL: the bulk listing is given the full base TTL
BulkTTL_full == default_expiration

\* the expiration get_all_restaurants passes to SETEX
BulkTTL == default_expiration \div 2

\* the expiration search_restaurants passes to SETEX
SearchTTL == default_expiration \div 4

\* faulty variant of get_restaurant: the record is stored under the bulk prefix
get_restaurant_wrong_key(restaurant_id, use_cache, faults) ==
    LET cache_key == _generate_cache_key("restaurant", restaurant_id, <<>>)
        try == CacheTry(cache_key, use_cache, faults)
        restaurant_data == PyOpt(db_get_restaurant(restaurants, restaurant_id))
        store == IF Truthy(restaurant_data) /\ redis_client
                 THEN CacheStore(_generate_cache_key("restaurants", restaurant_id, <<>>),
                                 RecordTTL, restaurant_data, faults)
                 ELSE NoStore
    IN  ReadOutcome(cache_key, RecordTTL, try, restaurant_data, store)

\* RestaurantRedisCache.get_restaurant
get_restaurant(restaurant_id, use_cache, faults) ==
    LET cache_key == _generate_cache_key("restaurant", restaurant_id, <<>>)
        try == CacheTry(cache_key, use_cache, faults)
        restaurant_data == PyOpt(db_get_restaurant(restaurants, restaurant_id))
        store == IF Truthy(restaurant_data) /\ redis_client
                 THEN CacheStore(cache_key, RecordTTL, restaurant_data, faults)
                 ELSE NoStore
    IN  ReadOutcome(cache_key, RecordTTL, try, restaurant_data, store)

\* RestaurantRedisCache.get_all_restaurants
get_all_restaurants(use_cache, faults) ==
    LET cache_key == _generate_cache_key("restaurants", "all", <<>>)
        try == CacheTry(cache_key, use_cache, faults)
        restaurants_data == PyList(db_get_all_restaurants(restaurants))
        store == IF Truthy(restaurants_data) /\ redis_client
                 THEN CacheStore(cache_key, BulkTTL, restaurants_data, faults)
                 ELSE NoStore
    IN  ReadOutcome(cache_key, BulkTTL, try, restaurants_data, store)

\* hashlib.md5(query.encode()).hexdigest()[:8], tabulated for the queries of
\* the model
Md5Hex8(query) ==
    CASE query = "pizza"  -> "7cf2db5e"
      [] query = "a"      -> "0cc175b9"
      [] query = "SUSHI"  -> "cc4a309c"
      [] query = "twist"  -> "eb3bac16"

\* the key search_restaurants builds (lines 338-343)
SearchKey(query, cuisine_type, min_rating) ==
    _generate_cache_key("search", Md5Hex8(query),
        << Item("cuisine", StrVal(IF cuisine_type # None /\ cuisine_type[1] # ""
                                  THEN cuisine_type[1] ELSE "any")),
           Item("min_rating", FloatVal(min_rating)) >>)

\* SearchKey, computed once for every search of the model
SearchKeyOf ==
    [q \in Queries |-> [c \in CuisineFilters |-> [m \in MinRatings |-> SearchKey(q, c, m)]]]

\* faulty variant of search_restaurants: the cache is written but never read
search_restaurants_no_read(query, cuisine_type, min_rating, use_cache, faults) ==
    LET cache_key == SearchKeyOf[query][cuisine_type][min_rating]
        try == CacheTry(cache_key, FALSE, faults)
        search_results == PyList(db_search_restaurants(restaurants, query,
                                                       cuisine_type, min_rating))
        store == IF redis_client
                 THEN CacheStore(cache_key, SearchTTL, search_results, faults)
                 ELSE NoStore
    IN  ReadOutcome(cache_key, SearchTTL, try, search_results, store)

\* RestaurantRedisCache.search_restaurants
search_restaurants(query, cuisine_type, min_rating, use_cache, faults) ==
    LET cache_key == SearchKeyOf[query][cuisine_type][min_rating]
        try == CacheTry(cache_key, use_cache, faults)
        search_results == PyList(db_search_restaurants(restaurants, query,
                                                       cuisine_type, min_rating))
        store == IF redis_client
                 THEN CacheStore(cache_key, SearchTTL, search_results, faults)
                 ELSE NoStore
    IN  ReadOutcome(cache_key, SearchTTL, try, search_results, store)

\* faulty variant of invalidate_restaurant_cache: every record entry is deleted
invalidate_clears_records(restaurant_id, fail_at) ==
    LET cache_key == _generate_cache_key("restaurant", restaurant_id, <<>>)
        deleted == IF cache_key \in DOMAIN cache THEN 1 ELSE 0
    IN  IF ~redis_client THEN [ok |-> FALSE, cache |-> cache, raised |-> FALSE,
                               backend_error |-> FALSE]
        ELSE IF fail_at \in 1..3
        THEN [ok |-> FALSE, cache |-> cache, raised |-> FALSE, backend_error |-> TRUE]
        ELSE [ok |-> deleted > 0, cache |-> EmptyCache, raised |-> FALSE,
              backend_error |-> FALSE]

\* faulty variant of invalidate_restaurant_cache: the search namespace is left alone
invalidate_keeps_search(restaurant_id, fail_at) ==
    LET cache_key == _generate_cache_key("restaurant", restaurant_id, <<>>)
        deleted == IF cache_key \in DOMAIN cache THEN 1 ELSE 0
        c1 == redis_delete(cache, {cache_key})
        c2 == redis_delete(c1, {_generate_cache_key("restaurants", "all", <<>>)})
    IN  IF ~redis_client THEN [ok |-> FALSE, cache |-> cache, raised |-> FALSE,
                               backend_error |-> FALSE]
        ELSE IF fail_at \in 1..2
        THEN [ok |-> FALSE, cache |-> IF fail_at = 1 THEN cache ELSE c1,
              raised |-> FALSE, backend_error |-> TRUE]
        ELSE [ok |-> deleted > 0, cache |-> c2, raised |-> FALSE,
              backend_error |-> FALSE]

\* RestaurantRedisCache.invalidate_restaurant_cache.  Its backend calls are
\* numbered 1 DEL record key, 2 DEL bulk key, 3 KEYS search:*, 4 DEL of the
\* search keys; fail_at is the call that raises, 0 when none does.
invalidate_restaurant_cache(restaurant_id, fail_at) ==
    LET cache_key == _generate_cache_key("restaurant", restaurant_id, <<>>)
        deleted == IF cache_key \in DOMAIN cache THEN 1 ELSE 0
        c1 == redis_delete(cache, {cache_key})
        c2 == redis_delete(c1, {_generate_cache_key("restaurants", "all", <<>>)})
        search_keys == redis_keys(c2, _generate_cache_key("search", "*", <<>>))
        c4 == IF search_keys # {} THEN redis_delete(c2, search_keys) ELSE c2
        raises == fail_at \in 1..3 \/ (fail_at = 4 /\ search_keys # {})
    IN  IF ~redis_client THEN [ok |-> FALSE, cache |-> cache, raised |-> FALSE,
                               backend_error |-> FALSE]
        ELSE IF raises
        THEN [ok |-> FALSE,
              cache |-> IF fail_at = 1 THEN cache ELSE IF fail_at = 2 THEN c1 ELSE c2,
              raised |-> FALSE, backend_error |-> TRUE]
        ELSE [ok |-> deleted > 0, cache |-> c4, raised |-> FALSE,
              backend_error |-> FALSE]

\* faulty variant of ClearPatterns: only the record namespace is listed
ClearPatterns_record_only == << _generate_cache_key("restaurant", "*", <<>>) >>

\* clear_all_cache: patterns
ClearPatterns ==
    << _generate_cache_key("restaurant", "*", <<>>),
       _generate_cache_key("restaurants", "*", <<>>),
       _generate_cache_key("search", "*", <<>>) >>

RECURSIVE ClearLoop(_, _, _)
\* clear_all_cache: the loop over the patterns.  st is the keyspace so far,
\* the backend calls made, the entries deleted and whether a call raised;
\* fail_at is the backend call that raises, 0 when none does.
ClearLoop(patterns, st, fail_at) ==
    IF patterns = <<>> \/ st.failed THEN st
    ELSE LET keys == redis_keys(st.cache, patterns[1])
             n == st.calls + 1
         IN  IF fail_at = n THEN [st EXCEPT !.failed = TRUE, !.calls = n]
             ELSE IF keys = {} THEN ClearLoop(Tail(patterns), [st EXCEPT !.calls = n], fail_at)
             ELSE IF fail_at = n + 1 THEN [st EXCEPT !.failed = TRUE, !.calls = n + 1]
             ELSE ClearLoop(Tail(patterns),
                            [cache |-> redis_delete(st.cache, keys), calls |-> n + 1,
                             deleted_count |-> st.deleted_count + Cardinality(keys),
                             failed |-> FALSE],
                            fail_at)

\* faulty variant of clear_all_cache: an exception of the backend reaches the caller
clear_all_cache_unguarded(fail_at) ==
    LET st == ClearLoop(ClearPatterns,
                        [cache |-> cache, calls |-> 0, deleted_count |-> 0,
                         failed |-> FALSE], fail_at)
    IN  [ok |-> redis_client /\ ~st.failed /\ st.deleted_count > 0,
         cache |-> IF redis_client THEN st.cache ELSE cache,
         raised |-> ~redis_client \/ st.failed,
         backend_error |-> redis_client /\ st.failed]

\* RestaurantRedisCache.clear_all_cache
clear_all_cache(fail_at) ==
    LET st == ClearLoop(ClearPatterns,
                        [cache |-> cache, calls |-> 0, deleted_count |-> 0,
                         failed |-> FALSE], fail_at)
    IN  IF ~redis_client
        THEN [ok |-> FALSE, cache |-> cache, raised |-> FALSE, backend_error |-> FALSE]
        ELSE IF st.failed
        THEN [ok |-> FALSE, cache |-> st.cache, raised |-> FALSE, backend_error |-> TRUE]
        ELSE [ok |-> st.deleted_count > 0, cache |-> st.cache, raised |-> FALSE,
              backend_error |-> FALSE]

\* the number of keys a KEYS call lists
CountKeys(c, pattern) == Cardinality(redis_keys(c, pattern))

\* faulty variant of get_cache_stats: looking at the keys renews their time
get_cache_stats_touching(fail_at, ratio) ==
    [status |-> IF ~redis_client THEN "Redis not available"
                ELSE IF fail_at \in 1..4 THEN "Error" ELSE "Connected",
     counts |-> <<>>, ratio |-> ratio,
     cache |-> [k \in DOMAIN cache |-> [cache[k] EXCEPT !.ttl = default_expiration]],
     raised |-> FALSE, backend_error |-> redis_client /\ fail_at \in 1..4]

\* RestaurantRedisCache.get_cache_stats with _calculate_hit_ratio.  Its backend
\* calls are numbered 1 INFO, 2 KEYS restaurant:*, 3 KEYS search:*, 4 KEYS
\* restaurants:*, 5 the INFO of _calculate_hit_ratio; fail_at is the first
\* that raises, 0 when none does.  ratio is what the server's hit and miss
\* counters make of cache_hit_ratio: a percentage, or "N/A" when both are 0.
get_cache_stats(fail_at, ratio) ==
    IF ~redis_client
    THEN [status |-> "Redis not available", counts |-> <<>>, ratio |-> "",
          cache |-> cache, raised |-> FALSE, backend_error |-> FALSE]
    ELSE IF fail_at \in 1..4
    THEN [status |-> "Error", counts |-> <<>>, ratio |-> "",
          cache |-> cache, raised |-> FALSE, backend_error |-> TRUE]
    ELSE [status |-> "Connected",
          counts |-> << CountKeys(cache, _generate_cache_key("restaurant", "*", <<>>)),
                        CountKeys(cache, _generate_cache_key("search", "*", <<>>)),
                        CountKeys(cache, _generate_cache_key("restaurants", "*", <<>>)) >>,
          ratio |-> IF fail_at = 5 THEN "N/A" ELSE ratio,
          cache |-> cache, raised |-> FALSE, backend_error |-> FALSE]

(***************************************************************************)
(* The gateway's wrapper: RestaurantCache (redis_cache.py), a second       *)
(* client of the same Redis server.  connected is FALSE when its           *)
(* redis_client is None.                                                   *)
(***************************************************************************)
\* RestaurantCache.get_cache_stats: 1 INFO, 2 KEYS restaurant:*
gateway_get_cache_stats(connected, fail_at) ==
    IF ~connected
    THEN [status |-> "Redis not connected", counts |-> <<>>, cache |-> cache,
          raised |-> FALSE, backend_error |-> FALSE]
    ELSE IF fail_at \in 1..2
    THEN [status |-> "Error", counts |-> <<>>, cache |-> cache,
          raised |-> FALSE, backend_error |-> TRUE]
    ELSE [status |-> "Connected", counts |-> << CountKeys(cache, "restaurant:*") >>,
          cache |-> cache, raised |-> FALSE, backend_error |-> FALSE]

\* RestaurantCache.clear_cache: 1 KEYS restaurant:*, 2 DEL of what it lists
clear_cache(connected, fail_at) ==
    LET keys == redis_keys(cache, "restaurant:*")
    IN  IF ~connected
        THEN [ok |-> FALSE, cache |-> cache, raised |-> FALSE, backend_error |-> FALSE]
        ELSE IF fail_at = 1 \/ (fail_at = 2 /\ keys # {})
        THEN [ok |-> FALSE, cache |-> cache, raised |-> FALSE, backend_error |-> TRUE]
        ELSE [ok |-> TRUE, cache |-> IF keys # {} THEN redis_delete(cache, keys) ELSE cache,
              raised |-> FALSE, backend_error |-> FALSE]

\* RestaurantCache.get_all_restaurants: KEYS restaurant:*, then a GET and a
\* json.loads for each key, in the order keys the server lists them in;
\* an exception anywhere gives []
gateway_get_all_restaurants(connected, keys) ==
    LET listed == SelectSeq(keys, LAMBDA k : redis_get(cache, k) # None)
        loaded == [i \in 1..Len(listed) |-> json_loads(redis_get(cache, listed[i])[1])]
    IN  IF ~connected THEN <<>>
        ELSE IF \E i \in 1..Len(loaded) : loaded[i] = DecodeError THEN <<>>
        ELSE loaded

\* the body of the loop of RestaurantCache.search_restaurants: whether the
\* record is appended to results
GatewaySearchKeeps(restaurant, query, cuisine_type, min_rating) ==
    IF cuisine_type # None /\ cuisine_type[1] # ""
       /\ LowerOf[restaurant.cuisine_type] # LowerOf[cuisine_type[1]]
    THEN FALSE
    ELSE IF restaurant.rating < min_rating THEN FALSE
    ELSE IF query # "" /\ ~LowerIn[query][restaurant.name] THEN FALSE
    ELSE TRUE

\* RestaurantCache.search_restaurants: the records it returns, or raised
\* when what a key holds is not a record
gateway_search_restaurants(connected, keys, query, cuisine_type, min_rating) ==
    LET loaded == gateway_get_all_restaurants(connected, keys)
    IN  IF \E i \in 1..Len(loaded) : loaded[i].t # "dict"
        THEN [ret |-> PyNone, raised |-> TRUE]
        ELSE [ret |-> PyList(SelectSeq([i \in 1..Len(loaded) |-> RecordOfObject(loaded[i])],
                                       LAMBDA r : GatewaySearchKeeps(r, query, cuisine_type,
                                                                     min_rating))),
              raised |-> FALSE]

(***************************************************************************)
(* Threads inside get_restaurant                                           *)
(***************************************************************************)
\* the threads of the gateway (app.run(threaded=True)) that share the backend
Callers == {"t1", "t2"}

\* a thread that is not inside a call: its position, the call's arguments
\* and locals, and what the call returned
Idle ==
    [pc |-> "idle", id |-> "", use_cache |-> FALSE, miss |-> FALSE,
     get_raised |-> FALSE, setex_raised |-> FALSE, data |-> PyNone,
     ret |-> PyNone, raised |-> FALSE]

NoProcs == [c \in Callers |-> Idle]

(***************************************************************************)
(* The record of the last call                                             *)
(***************************************************************************)
NoCall ==
    [op |-> "none", id |-> "", query |-> "", cuisine |-> None, min_rating |-> 0,
     use_cache |-> FALSE, ret |-> PyNone, ok |-> FALSE, raised |-> FALSE,
     hit |-> FALSE, miss |-> FALSE, db_queried |-> FALSE, get_raised |-> FALSE,
     decode_failed |-> FALSE, setex_raised |-> FALSE, backend_error |-> FALSE,
     wrote |-> FALSE, key |-> "", ttl |-> 0, removed |-> 0, prefix |-> "",
     kwargs |-> <<>>, expired |-> {}, after_expiry |-> FALSE, fail_at |-> 0,
     status |-> "", counts |-> <<>>, ratio |-> "", connected |-> FALSE,
     arg |-> NoneVal, text |-> InvalidText,
     rating |-> 0, code |-> 0, errors |-> {}, request |-> <<>>,
     total |-> 0, exception |-> ""]

ReadCall(op, use_cache, r) ==
    [NoCall EXCEPT !.op = op, !.use_cache = use_cache, !.ret = r.ret,
                   !.raised = r.raised, !.hit = r.hit, !.miss = r.miss,
                   !.db_queried = r.db_queried, !.get_raised = r.get_raised,
                   !.decode_failed = r.decode_failed,
                   !.setex_raised = r.setex_raised,
                   !.backend_error = r.get_raised \/ r.setex_raised,
                   !.wrote = r.wrote, !.key = r.key, !.ttl = r.ttl,
                   !.after_expiry = (last.op = "tick" /\ r.key \in last.expired)]

(***************************************************************************)
(* Actions                                                                 *)
(***************************************************************************)
Step == nops < MaxOps /\ nops' = nops + 1 /\ UNCHANGED <<procs, rows, reachable, database, mqtt>>

GetRestaurant ==
    \E restaurant_id \in CallIds, use_cache \in BOOLEAN, faults \in FaultSets :
        LET r == get_restaurant(restaurant_id, use_cache, faults)
        IN  /\ Step
            /\ cache' = r.cache
            /\ last' = [ReadCall("get_restaurant", use_cache, r) EXCEPT !.id = restaurant_id]
            /\ UNCHANGED <<restaurants, redis_client, default_expiration>>

GetAllRestaurants ==
    \E use_cache \in BOOLEAN, faults \in FaultSets :
        LET r == get_all_restaurants(use_cache, faults)
        IN  /\ Step
            /\ cache' = r.cache
            /\ last' = ReadCall("get_all_restaurants", use_cache, r)
            /\ UNCHANGED <<restaurants, redis_client, default_expiration>>

SearchIn(calls) ==
    \E a \in calls, use_cache \in BOOLEAN, faults \in FaultSets :
        LET r == search_restaurants(a[1], a[2], a[3], use_cache, faults)
        IN  /\ Step
            /\ cache' = r.cache
            /\ last' = [ReadCall("search_restaurants", use_cache, r)
                            EXCEPT !.query = a[1], !.cuisine = a[2], !.min_rating = a[3]]
            /\ UNCHANGED <<restaurants, redis_client, default_expiration>>

SearchRestaurants == SearchIn(SearchCalls)

\* search_restaurants over the searches that differ in one argument, on a
\* source that does not change
SearchAlike == SearchIn(KeySearchCalls)

InvalidateRestaurantCache ==
    \E restaurant_id \in CallIds, fail_at \in 0..4 :
        LET r == invalidate_restaurant_cache(restaurant_id, fail_at)
        IN  /\ Step
            /\ cache' = r.cache
            /\ last' = [NoCall EXCEPT !.op = "invalidate_restaurant_cache",
                                      !.id = restaurant_id, !.ok = r.ok,
                                      !.raised = r.raised, !.fail_at = fail_at,
                                      !.backend_error = r.backend_error,
                                      !.removed = Cardinality(DOMAIN cache)
                                                  - Cardinality(DOMAIN r.cache)]
            /\ UNCHANGED <<restaurants, redis_client, default_expiration>>

ClearAllCache ==
    \E fail_at \in 0..6 :
        LET r == clear_all_cache(fail_at)
        IN  /\ Step
            /\ cache' = r.cache
            /\ last' = [NoCall EXCEPT !.op = "clear_all_cache", !.ok = r.ok,
                                      !.raised = r.raised, !.fail_at = fail_at,
                                      !.backend_error = r.backend_error,
                                      !.removed = Cardinality(DOMAIN cache)
                                                  - Cardinality(DOMAIN r.cache)]
            /\ UNCHANGED <<restaurants, redis_client, default_expiration>>

GetCacheStats ==
    \E fail_at \in 0..5, ratio \in {"N/A", "percent"} :
        LET r == get_cache_stats(fail_at, ratio)
        IN  /\ Step
            /\ cache' = r.cache
            /\ last' = [NoCall EXCEPT !.op = "get_cache_stats", !.status = r.status,
                                      !.counts = r.counts, !.ratio = r.ratio,
                                      !.raised = r.raised, !.fail_at = fail_at,
                                      !.backend_error = r.backend_error]
            /\ UNCHANGED <<restaurants, redis_client, default_expiration>>

\* GET /cache/stats of the gateway
GatewayGetCacheStats ==
    \E connected \in BOOLEAN, fail_at \in 0..2 :
        LET r == gateway_get_cache_stats(connected, fail_at)
        IN  /\ Step
            /\ cache' = r.cache
            /\ last' = [NoCall EXCEPT !.op = "gateway_get_cache_stats",
                                      !.status = r.status, !.counts = r.counts,
                                      !.raised = r.raised, !.fail_at = fail_at,
                                      !.connected = connected,
                                      !.backend_error = r.backend_error]
            /\ UNCHANGED <<restaurants, redis_client, default_expiration>>

\* DELETE /cache/clear of the gateway
GatewayClearCache ==
    \E connected \in BOOLEAN, fail_at \in 0..2 :
        LET r == clear_cache(connected, fail_at)
        IN  /\ Step
            /\ cache' = r.cache
            /\ last' = [NoCall EXCEPT !.op = "clear_cache", !.ok = r.ok,
                                      !.raised = r.raised, !.fail_at = fail_at,
                                      !.connected = connected,
                                      !.backend_error = r.backend_error,
                                      !.removed = Cardinality(DOMAIN cache)
                                                  - Cardinality(DOMAIN r.cache)]
            /\ UNCHANGED <<restaurants, redis_client, default_expiration>>

\* RestaurantRedisCache.set_expiration
SetExpiration ==
    \E seconds \in Expirations :
        /\ Step
        /\ default_expiration' = seconds
        /\ last' = [NoCall EXCEPT !.op = "set_expiration"]
        /\ UNCHANGED <<restaurants, cache, redis_client>>

AddRestaurant ==
    \E new_id \in NewIds, restaurant_data \in NewRecords :
        /\ Step
        /\ IndexOf(restaurants, new_id) = 0
        /\ restaurants' = db_add_restaurant(restaurants, new_id, restaurant_data)
        /\ last' = [NoCall EXCEPT !.op = "add_restaurant", !.id = new_id, !.ok = TRUE]
        /\ UNCHANGED <<cache, redis_client, default_expiration>>

UpdateRestaurant ==
    \E restaurant_id \in CallIds, restaurant_data \in Updates :
        /\ Step
        /\ restaurants' = db_update_restaurant(restaurants, restaurant_id, restaurant_data)
        /\ last' = [NoCall EXCEPT !.op = "update_restaurant", !.id = restaurant_id,
                                  !.ok = (IndexOf(restaurants, restaurant_id) # 0)]
        /\ UNCHANGED <<cache, redis_client, default_expiration>>

DeleteRestaurant ==
    \E restaurant_id \in CallIds :
        /\ Step
        /\ restaurants' = db_delete_restaurant(restaurants, restaurant_id)
        /\ last' = [NoCall EXCEPT !.op = "delete_restaurant", !.id = restaurant_id,
                                  !.ok = (IndexOf(restaurants, restaurant_id) # 0)]
        /\ UNCHANGED <<cache, redis_client, default_expiration>>

\* faulty variant of Tick: the entries whose time is up stay readable
Tick_keeps_expired ==
    \E d \in TickSteps :
        /\ Step
        /\ DOMAIN cache # {}
        /\ cache' = [k \in DOMAIN cache |->
                        [cache[k] EXCEPT !.ttl = IF @ > d THEN @ - d ELSE 0]]
        /\ last' = [NoCall EXCEPT !.op = "tick",
                                  !.expired = {j \in DOMAIN cache : cache[j].ttl <= d}]
        /\ UNCHANGED <<restaurants, redis_client, default_expiration>>

\* the backend's clock: d seconds pass, and the entries whose time is up go
Tick ==
    \E d \in TickSteps :
        /\ Step
        /\ DOMAIN cache # {}
        /\ cache' = [k \in {j \in DOMAIN cache : cache[j].ttl > d} |->
                        [cache[k] EXCEPT !.ttl = @ - d]]
        /\ last' = [NoCall EXCEPT !.op = "tick",
                                  !.expired = {j \in DOMAIN cache : cache[j].ttl <= d}]
        /\ UNCHANGED <<restaurants, redis_client, default_expiration>>

\* another client of the shared backend overwrites an entry's text with text
\* that is not JSON, keeping its expiry
ForeignWrite ==
    \E k \in DOMAIN cache :
        /\ Step
        /\ cache[k].payload # InvalidText
        /\ cache' = [cache EXCEPT ![k] = [payload |-> InvalidText, ttl |-> @.ttl,
                                          src |-> PyNone]]
        /\ last' = [NoCall EXCEPT !.op = "foreign_write", !.key = k]
        /\ UNCHANGED <<restaurants, redis_client, default_expiration>>

(***************************************************************************)
(* The gRPC service's database and the MQTT client, as constructed         *)
(***************************************************************************)
\* RestaurantDatabase.__init__: the sample records, each a dict object of its
\* own, stored under its restaurant_id and stamped by the clock
DatabaseInit ==
    /\ now = 0
    /\ heap = [a \in 1..Len(SeedRestaurants) |->
                  [restaurant_id |-> SeedRestaurants[a].restaurant_id,
                   name |-> SeedRestaurants[a].name,
                   rating |-> SeedRestaurants[a].rating,
                   created_at |-> 0, updated_at |-> 0]]
    /\ db_restaurants = [k \in {SeedRestaurants[a].restaurant_id : a \in 1..Len(SeedRestaurants)} |->
                            IndexOf(SeedRestaurants, k)]

\* MQTTRestaurantOrderSystem.__init__: not connected, nothing subscribed,
\* nothing received or published
MqttInit ==
    /\ is_connected = FALSE
    /\ subscriptions = {}
    /\ inbox = <<>>
    /\ received = <<>>
    /\ published = <<>>
    /\ handling = 0

(***************************************************************************)
(* Specifications                                                          *)
(***************************************************************************)
\* RestaurantRedisCache.__init__ / connect: the store seeded, the backend
\* empty, the connection made or refused
Init ==
    /\ restaurants = SeedRestaurants
    /\ cache = EmptyCache
    /\ redis_client \in BOOLEAN
    /\ default_expiration = DEFAULT_EXPIRATION
    /\ last = NoCall
    /\ nops = 0
    /\ procs = NoProcs
    /\ rows = <<>>
    /\ reachable = TRUE
    /\ DatabaseInit
    /\ MqttInit

Next ==
    \/ GetRestaurant
    \/ GetAllRestaurants
    \/ SearchRestaurants
    \/ InvalidateRestaurantCache
    \/ ClearAllCache
    \/ GetCacheStats
    \/ GatewayGetCacheStats
    \/ GatewayClearCache
    \/ SetExpiration
    \/ AddRestaurant
    \/ UpdateRestaurant
    \/ DeleteRestaurant
    \/ Tick
    \/ ForeignWrite

Spec == Init /\ [][Next]_vars

SpecSearch == Init /\ [][SearchAlike]_vars

(***************************************************************************)
(* The key composer on its own                                             *)
(***************************************************************************)
\* keyword arguments: the two search_restaurants passes, and a third
KeyItems ==
    { Item("cuisine", StrVal("any")), Item("cuisine", StrVal("Italian")),
      Item("min_rating", FloatVal(0)), Item("min_rating", FloatVal(40)),
      Item("city", StrVal("Downtown")) }

\* the ways to supply up to three keyword arguments with different names
KwargSeqs ==
    {s \in UNION {[1..n -> KeyItems] : n \in 0..3} :
        \A i, j \in 1..Len(s) : i # j => s[i].k # s[j].k}

\* a caller about to compose a key from inputs of the sets above
KeyInit ==
    /\ restaurants = SeedRestaurants
    /\ cache = EmptyCache
    /\ redis_client \in BOOLEAN
    /\ default_expiration = DEFAULT_EXPIRATION
    /\ nops = 0
    /\ procs = NoProcs
    /\ rows = <<>>
    /\ reachable = TRUE
    /\ DatabaseInit
    /\ MqttInit
    /\ \E prefix \in {"restaurant", "restaurants", "search"},
          identifier \in {"rest_001", "all", "*", "7cf2db5e"},
          kwargs \in KwargSeqs :
          last = [NoCall EXCEPT !.op = "compose", !.prefix = prefix,
                                !.id = identifier, !.kwargs = kwargs]

ComposeKey ==
    /\ last.op = "compose"
    /\ last' = [last EXCEPT !.op = "_generate_cache_key",
                            !.key = _generate_cache_key(last.prefix, last.id, last.kwargs)]
    /\ UNCHANGED <<restaurants, cache, redis_client, default_expiration, nops, procs, rows, reachable, database, mqtt>>

SpecKey == KeyInit /\ [][ComposeKey]_vars

(***************************************************************************)
(* The codec on its own                                                    *)
(***************************************************************************)
\* MockRestaurantDatabase.__init__: the record rest_002 with all its fields
\* (floats in tenths: 22.00 is 220, 12.50 is 125)
FullRecord ==
    [t |-> "dict",
     v |-> << [restaurant_id |-> StrVal("rest_002"),
               name |-> StrVal("Sushi Sensation"),
               address |-> StrVal("456 Oak Ave, Uptown, City 12345"),
               phone_number |-> StrVal("+1-555-0102"),
               rating |-> FloatVal(49),
               cuisine_type |-> StrVal("Japanese"),
               description |-> StrVal("Fresh sushi and traditional Japanese dishes"),
               is_active |-> BoolVal(TRUE),
               created_at |-> StrVal("2024-01-10T09:15:00"),
               updated_at |-> StrVal("2024-01-22T11:20:00"),
               menu_items |-> [t |-> "list", v |-> <<
                   [t |-> "dict",
                    v |-> << [item_id |-> StrVal("item_003"),
                              name |-> StrVal("Salmon Sashimi"),
                              description |-> StrVal("Fresh salmon slices"),
                              price |-> FloatVal(220),
                              category |-> StrVal("Sashimi"),
                              is_available |-> BoolVal(TRUE)] >>],
                   [t |-> "dict",
                    v |-> << [item_id |-> StrVal("item_004"),
                              name |-> StrVal("California Roll"),
                              description |-> StrVal("Crab, avocado, and cucumber roll"),
                              price |-> FloatVal(125),
                              category |-> StrVal("Sushi Roll"),
                              is_available |-> BoolVal(TRUE)] >>] >>],
               reviews |-> [t |-> "list", v |-> <<
                   [t |-> "dict",
                    v |-> << [review_id |-> StrVal("rev_002"),
                              customer_name |-> StrVal("Jane Smith"),
                              rating |-> IntVal(5),
                              comment |-> StrVal("Best sushi in town!"),
                              date |-> StrVal("2024-01-20T20:15:00")] >>] >>] ] >>]

\* the records the source can hold: the seeded ones, one that was added, one
\* that was updated, and one with every field
SourceRecords ==
    {ObjectOfRecord(SeedRestaurants[i]) : i \in 1..Len(SeedRestaurants)}
    \cup {ObjectOfRecord(db_add_restaurant(<<>>, id, r)[1]) : id \in NewIds, r \in NewRecords}
    \cup {ObjectOfRecord(db_update_restaurant(SeedRestaurants, "rest_001", u)[1]) : u \in Updates}
    \cup {FullRecord}

\* what the source's reads return: None or a record (get_restaurant), a list
\* of records (get_all_restaurants, search_restaurants)
SourceObjects ==
    {NoneVal} \cup SourceRecords
    \cup {[t |-> "list", v |-> rs] : rs \in UNION {[1..n -> SourceRecords] : n \in 0..2}}

\* objects the source does not return, which the codec accepts all the same:
\* a record whose timestamp is a datetime, and a tuple of records
OtherObjects ==
    { [t |-> "dict", v |-> << [restaurant_id |-> StrVal("rest_002"),
                               created_at |-> DateTimeVal("2024-01-10 09:15:00")] >>],
      TupleVal(<<FullRecord>>) }

\* a caller about to encode an object
CodecInit ==
    /\ restaurants = SeedRestaurants
    /\ cache = EmptyCache
    /\ redis_client \in BOOLEAN
    /\ default_expiration = DEFAULT_EXPIRATION
    /\ nops = 0
    /\ procs = NoProcs
    /\ rows = <<>>
    /\ reachable = TRUE
    /\ DatabaseInit
    /\ MqttInit
    /\ \E x \in SourceObjects \cup OtherObjects :
          last = [NoCall EXCEPT !.op = "encode", !.arg = x]

Serialize ==
    /\ last.op = "encode"
    /\ last' = [last EXCEPT !.op = "_serialize_data", !.text = _serialize_data(last.arg)]
    /\ UNCHANGED <<restaurants, cache, redis_client, default_expiration, nops, procs, rows, reachable, database, mqtt>>

Deserialize ==
    /\ last.op = "_serialize_data"
    /\ last' = [last EXCEPT !.op = "_deserialize_data", !.ret = _deserialize_data(last.text)]
    /\ UNCHANGED <<restaurants, cache, redis_client, default_expiration, nops, procs, rows, reachable, database, mqtt>>

SpecCodec == CodecInit /\ [][Serialize \/ Deserialize]_vars

(***************************************************************************)
(* Writes of a rating: the RPCs of the gRPC service and the Django API     *)
(***************************************************************************)
\* the ratings the requests carry, in tenths: below, at and above the bounds
RatingInputs == {-5, 0, 45, 50, 51, 75}

\* RestaurantServiceImpl.AddRestaurant / UpdateRestaurant: restaurant_data,
\* built from the fields of the request as they are
RequestData(request) ==
    [name |-> request.name, description |-> request.description,
     cuisine_type |-> request.cuisine_type, rating |-> request.rating]

RpcRequests ==
    { [name |-> "Pizza Plaza", description |-> "Wood fired pizza",
       cuisine_type |-> "Italian", rating |-> x] : x \in RatingInputs }

\* RestaurantSerializer.validate_rating
validate_rating(value) == ~(value < 0 \/ value > 50)

\* str.strip() leaves nothing
Blank(value) == \A i \in 1..Len(value) : SubSeq(value, i, i) = " "

\* faulty variant of SerializerErrors: only the rating is validated
SerializerErrors_rating_only(data) ==
    IF validate_rating(data.rating) THEN {} ELSE {"rating"}

\* RestaurantSerializer.is_valid: the fields that have errors
SerializerErrors(data) ==
    {f \in {"name", "phone_number", "rating"} :
        \/ f = "name" /\ Blank(data.name)
        \/ f = "phone_number" /\ Blank(data.phone_number)
        \/ f = "rating" /\ ~validate_rating(data.rating)}

\* the requests to the API: a name and a phone number that are blank or
\* not, and a rating
ApiRequests ==
    { [name |-> n, phone_number |-> ph, rating |-> x] :
        n \in {"Pasta Place", " "}, ph \in {"+1-555-0100", ""}, x \in RatingInputs }

RatingInit ==
    /\ restaurants = SeedRestaurants
    /\ cache = EmptyCache
    /\ redis_client \in BOOLEAN
    /\ default_expiration = DEFAULT_EXPIRATION
    /\ last = NoCall
    /\ nops = 0
    /\ procs = NoProcs
    /\ rows = <<>>
    /\ reachable = TRUE
    /\ DatabaseInit
    /\ MqttInit

RatingStep ==
    /\ nops < MaxOps
    /\ nops' = nops + 1
    /\ UNCHANGED <<cache, redis_client, default_expiration, procs, reachable, database, mqtt>>

AddRestaurantRpc ==
    \E new_id \in NewIds, request \in RpcRequests :
        /\ RatingStep
        /\ IndexOf(restaurants, new_id) = 0
        /\ restaurants' = db_add_restaurant(restaurants, new_id, RequestData(request))
        /\ last' = [NoCall EXCEPT !.op = "AddRestaurant", !.id = new_id,
                                  !.rating = request.rating, !.ok = TRUE]
        /\ UNCHANGED rows

UpdateRestaurantRpc ==
    \E restaurant_id \in CallIds, request \in RpcRequests :
        /\ RatingStep
        /\ restaurants' = db_update_restaurant(restaurants, restaurant_id, RequestData(request))
        /\ last' = [NoCall EXCEPT !.op = "UpdateRestaurant", !.id = restaurant_id,
                                  !.rating = request.rating,
                                  !.ok = (IndexOf(restaurants, restaurant_id) # 0)]
        /\ UNCHANGED rows

\* RestaurantListCreateView.create
RestaurantCreate ==
    \E data \in ApiRequests :
        LET errors == SerializerErrors(data)
        IN  /\ RatingStep
            /\ rows' = IF errors = {} THEN Append(rows, data) ELSE rows
            /\ last' = [NoCall EXCEPT !.op = "create", !.rating = data.rating,
                                      !.request = <<data>>,
                                      !.ok = (errors = {}), !.errors = errors,
                                      !.code = IF errors = {} THEN 201 ELSE 400]
            /\ UNCHANGED restaurants

\* RestaurantDetailView, PUT, of the first row or of one that may not exist
RestaurantUpdate ==
    \E pk \in {1, 2}, data \in ApiRequests :
        LET errors == SerializerErrors(data)
            found == pk \in DOMAIN rows
        IN  /\ RatingStep
            /\ rows' = IF found /\ errors = {} THEN [rows EXCEPT ![pk] = data] ELSE rows
            /\ last' = [NoCall EXCEPT !.op = "update", !.rating = data.rating,
                                      !.request = <<data>>,
                                      !.ok = (found /\ errors = {}),
                                      !.errors = IF found THEN errors ELSE {},
                                      !.code = IF ~found THEN 404
                                               ELSE IF errors = {} THEN 200 ELSE 400]
            /\ UNCHANGED restaurants

\* the JSON bodies of PUT /restaurant/update, without the restaurant_id: one
\* field, another field, and every field
PartialUpdates ==
    { [name |-> "Pizza Spoon"],
      [rating |-> 39],
      [name |-> "Pizza Spoon", description |-> "Now with spoons",
       cuisine_type |-> "Fusion", rating |-> 39] }

\* dict.get(key, default)
DictGet(data, key, default) == IF key \in DOMAIN data THEN data[key] ELSE default

\* http_gateways.update_restaurant: the UpdateRestaurantRequest it builds
\* from the body
UpdateRestaurantRequest(data) ==
    [name |-> DictGet(data, "name", ""),
     description |-> DictGet(data, "description", ""),
     cuisine_type |-> DictGet(data, "cuisine_type", ""),
     rating |-> DictGet(data, "rating", 0)]

\* http_gateways.update_restaurant: PUT /restaurant/update, the call of the
\* UpdateRestaurant RPC included
GatewayUpdateRestaurant ==
    \E restaurant_id \in CallIds \cup {""}, data \in PartialUpdates :
        LET found == IndexOf(restaurants, restaurant_id) # 0
        IN  /\ RatingStep
            /\ restaurants' =
                   IF restaurant_id = "" THEN restaurants
                   ELSE db_update_restaurant(restaurants, restaurant_id,
                                             RequestData(UpdateRestaurantRequest(data)))
            /\ last' = [NoCall EXCEPT !.op = "PUT /restaurant/update",
                                      !.id = restaurant_id, !.request = <<data>>,
                                      !.ok = found,
                                      !.code = IF found THEN 200 ELSE 400]
            /\ UNCHANGED rows

SpecRating ==
    /\ RatingInit
    /\ [][ \/ AddRestaurantRpc
           \/ UpdateRestaurantRpc
           \/ GatewayUpdateRestaurant
           \/ RestaurantCreate
           \/ RestaurantUpdate ]_vars

(***************************************************************************)
(* calculate_total_revenue                                                 *)
(* Amounts are exact, in thousandths: 15.99 is 15990.  The returned total  *)
(* is in hundredths.                                                       *)
(***************************************************************************)
\* the longest list of orders
MaxOrders == 3

\* a float, in thousandths
Float3(m) == [t |-> "float", s |-> "", n |-> m]

\* a dict with the given items
DictVal(items) == [t |-> "dict", v |-> <<items>>]

Order(item_name, quantity, price_per_item) ==
    DictVal([item_name |-> item_name, quantity |-> quantity,
             price_per_item |-> price_per_item])

\* orders of the tests and the demo, and some with one more decimal
WellFormedOrders ==
    { Order(StrVal("Pizza"), IntVal(2), Float3(15990)),
      Order(StrVal("Burger"), IntVal(1), Float3(8500)),
      Order(StrVal("Soda"), IntVal(3), Float3(2990)),
      Order(StrVal("Free Sample"), IntVal(0), Float3(10000)),
      Order(StrVal("Mint"), IntVal(1), Float3(125)),
      Order(StrVal("Gum"), IntVal(1), Float3(2999)) }

\* orders the function refuses or converts
OtherOrders ==
    { Order(StrVal(" "), IntVal(1), Float3(3500)),
      Order(StrVal("Coffee"), IntVal(-1), Float3(3500)),
      Order(StrVal("Coffee"), Float3(2700), Float3(3500)),
      Order(StrVal("Coffee"), IntVal(1), Float3(-3500)),
      Order(StrVal("Coffee"), NoneVal, Float3(3500)),
      DictVal([item_name |-> StrVal("Coffee"), quantity |-> IntVal(1)]),
      StrVal("Coffee") }

\* arguments that are not a list
NonListArguments ==
    { NoneVal, StrVal("orders"), StrVal(""), IntVal(0), IntVal(5),
      DictVal(<<>>), DictVal([item_name |-> StrVal("Coffee")]),
      TupleVal(<<>>), TupleVal(<<Order(StrVal("Burger"), IntVal(1), Float3(8500))>>) }

RevenueArguments ==
    NonListArguments
    \cup {[t |-> "list", v |-> os] : os \in UNION {[1..n -> WellFormedOrders \cup OtherOrders] : n \in 0..MaxOrders}}

\* not x
Falsy(x) ==
    CASE x.t = "NoneType" -> TRUE
      [] x.t = "str" -> x.s = ""
      [] x.t \in {"int", "float", "bool"} -> x.n = 0
      [] x.t \in {"list", "tuple"} -> Len(x.v) = 0
      [] x.t = "dict" -> DOMAIN x.v[1] = {}
      [] OTHER -> FALSE

\* int(x) and float(x) in thousandths; ok is FALSE when the conversion raises
int(x) ==
    CASE x.t \in {"int", "bool"} -> [ok |-> TRUE, n |-> x.n]
      [] x.t = "float" -> [ok |-> TRUE,
                           n |-> IF x.n >= 0 THEN x.n \div 1000 ELSE -((-x.n) \div 1000)]
      [] OTHER -> [ok |-> FALSE, n |-> 0]

float(x) ==
    CASE x.t \in {"int", "bool"} -> [ok |-> TRUE, n |-> 1000 * x.n]
      [] x.t = "float" -> [ok |-> TRUE, n |-> x.n]
      [] OTHER -> [ok |-> FALSE, n |-> 0]

\* the result of the function before rounding: the exception raised, if any,
\* and total_revenue
Raise(exception) == [exception |-> exception, total_revenue |-> 0]

RECURSIVE RevenueLoop(_, _, _)
\* the for loop from order i on
RevenueLoop(orders, i, total_revenue) ==
    IF i > Len(orders) THEN [exception |-> "", total_revenue |-> total_revenue]
    ELSE LET order == orders[i]
         IN  IF order.t # "dict" THEN Raise("TypeError")
             ELSE IF ~({"item_name", "quantity", "price_per_item"} \subseteq DOMAIN order.v[1])
                  THEN Raise("ValueError")
             ELSE LET item_name == order.v[1].item_name
                      quantity == int(order.v[1].quantity)
                      price_per_item == float(order.v[1].price_per_item)
                  IN  IF item_name.t # "str" \/ Blank(item_name.s) THEN Raise("ValueError")
                      ELSE IF ~quantity.ok \/ quantity.n < 0 THEN Raise("ValueError")
                      ELSE IF ~price_per_item.ok \/ price_per_item.n < 0 THEN Raise("ValueError")
                      ELSE RevenueLoop(orders, i + 1,
                                       total_revenue + quantity.n * price_per_item.n)

\* faulty variant of round2: the third decimal is cut off
round2_truncating(x) == {x \div 10}

\* round(x, 2) for x >= 0 in thousandths, in hundredths.  A total that lies
\* half way between two hundredths is held as a binary float just above or
\* just below it, and is rounded to either.
round2(x) ==
    IF x % 10 < 5 THEN {x \div 10}
    ELSE IF x % 10 > 5 THEN {(x \div 10) + 1}
    ELSE {x \div 10, (x \div 10) + 1}

\* calculate_total_revenue up to the return statement
calculate_total_revenue(orders) ==
    IF Falsy(orders) THEN [exception |-> "", total_revenue |-> 0]
    ELSE IF orders.t # "list" THEN Raise("TypeError")
    ELSE RevenueLoop(orders.v, 1, 0)

RevenueInit ==
    /\ restaurants = SeedRestaurants
    /\ cache = EmptyCache
    /\ redis_client = TRUE
    /\ default_expiration = DEFAULT_EXPIRATION
    /\ nops = 0
    /\ procs = NoProcs
    /\ rows = <<>>
    /\ reachable = TRUE
    /\ DatabaseInit
    /\ MqttInit
    /\ \E orders \in RevenueArguments :
          last = [NoCall EXCEPT !.op = "orders", !.arg = orders]

CalculateTotalRevenue ==
    /\ last.op = "orders"
    /\ LET r == calculate_total_revenue(last.arg)
       IN  \E total \in round2(r.total_revenue) :
             last' = [last EXCEPT !.op = "calculate_total_revenue",
                                  !.exception = r.exception,
                                  !.total = IF r.exception = "" THEN total ELSE 0]
    /\ UNCHANGED <<restaurants, cache, redis_client, default_expiration, nops, procs, rows, reachable, database, mqtt>>

SpecRevenue == RevenueInit /\ [][CalculateTotalRevenue]_vars

RECURSIVE SumOfOrders(_)
\* the sum over the orders of quantity times price_per_item, in thousandths
SumOfOrders(orders) ==
    IF Len(orders) = 0 THEN 0
    ELSE orders[1].v[1].quantity.n * orders[1].v[1].price_per_item.n
         + SumOfOrders(Tail(orders))

(***************************************************************************)
(* get_restaurant, one backend or source call at a time                    *)
(***************************************************************************)
\* a thread enters get_restaurant(restaurant_id, use_cache)
ConcCall(c) ==
    \E restaurant_id \in CallIds, use_cache \in BOOLEAN :
        /\ procs[c].pc = "idle"
        /\ procs' = [procs EXCEPT ![c] = [Idle EXCEPT !.pc = "get", !.id = restaurant_id,
                                                      !.use_cache = use_cache]]
        /\ UNCHANGED <<restaurants, cache, redis_client, default_expiration, last, nops, rows, reachable, database, mqtt>>

\* lines 273-282: the GET, and the return when it found a payload that decodes
ConcCacheGet(c) ==
    \E faults \in {{}, {"get"}} :
        LET p == procs[c]
            try == CacheTry(_generate_cache_key("restaurant", p.id, <<>>), p.use_cache, faults)
        IN  /\ p.pc = "get"
            /\ procs' = [procs EXCEPT ![c] =
                            IF try.hit
                            THEN [p EXCEPT !.pc = "done", !.ret = try.value]
                            ELSE [p EXCEPT !.pc = "db", !.miss = try.miss,
                                           !.get_raised = try.get_raised]]
            /\ UNCHANGED <<restaurants, cache, redis_client, default_expiration, last, nops, rows, reachable, database, mqtt>>

\* lines 285-288 and 300: the source read, and the return when there is
\* nothing to store or nowhere to store it
ConcDbRead(c) ==
    LET p == procs[c]
        restaurant_data == PyOpt(db_get_restaurant(restaurants, p.id))
    IN  /\ p.pc = "db"
        /\ procs' = [procs EXCEPT ![c] =
                        IF Truthy(restaurant_data) /\ redis_client
                        THEN [p EXCEPT !.pc = "setex", !.data = restaurant_data]
                        ELSE [p EXCEPT !.pc = "done", !.data = restaurant_data,
                                       !.ret = restaurant_data]]
        /\ UNCHANGED <<restaurants, cache, redis_client, default_expiration, last, nops, rows, reachable, database, mqtt>>

\* lines 289-300: the SETEX, and the return
ConcCacheSet(c) ==
    \E faults \in {{}, {"setex"}} :
        LET p == procs[c]
            store == CacheStore(_generate_cache_key("restaurant", p.id, <<>>),
                                RecordTTL, p.data, faults)
        IN  /\ p.pc = "setex"
            /\ cache' = store.cache
            /\ procs' = [procs EXCEPT ![c] = [p EXCEPT !.pc = "done", !.ret = p.data,
                                                       !.setex_raised = store.setex_raised]]
            /\ UNCHANGED <<restaurants, redis_client, default_expiration, last, nops, rows, reachable, database, mqtt>>

ConcNext ==
    \E c \in Callers :
        \/ ConcCall(c)
        \/ ConcCacheGet(c)
        \/ ConcDbRead(c)
        \/ ConcCacheSet(c)

SpecConc == Init /\ [][ConcNext]_vars

(***************************************************************************)
(* get_restaurant calls in progress while a writer updates a record in the *)
(* source and then invalidates it                                          *)
(***************************************************************************)
\* RestaurantDatabase.update_restaurant by the writer
WriterUpdate ==
    \E restaurant_id \in CallIds, restaurant_data \in Updates :
        /\ last.op = "none"
        /\ IndexOf(restaurants, restaurant_id) # 0
        /\ restaurants' = db_update_restaurant(restaurants, restaurant_id, restaurant_data)
        /\ last' = [NoCall EXCEPT !.op = "update_restaurant", !.id = restaurant_id,
                                  !.ok = TRUE]
        /\ UNCHANGED <<cache, redis_client, default_expiration, nops, procs, rows, reachable, database, mqtt>>

\* invalidate_restaurant_cache of the updated record by the writer; no
\* backend call fails
WriterInvalidate ==
    LET r == invalidate_restaurant_cache(last.id, 0)
    IN  /\ last.op = "update_restaurant"
        /\ cache' = r.cache
        /\ last' = [NoCall EXCEPT !.op = "invalidate_restaurant_cache",
                                  !.id = last.id, !.ok = r.ok, !.raised = r.raised,
                                  !.backend_error = r.backend_error,
                                  !.removed = Cardinality(DOMAIN cache)
                                              - Cardinality(DOMAIN r.cache)]
        /\ UNCHANGED <<restaurants, redis_client, default_expiration, nops, procs, rows, reachable, database, mqtt>>

SpecRace == Init /\ [][ConcNext \/ WriterUpdate \/ WriterInvalidate]_vars

(***************************************************************************)
(* An outage of the backend and its end                                    *)
(* In this specification a backend call raises exactly when the server is  *)
(* unreachable.                                                            *)
(***************************************************************************)
\* RestaurantRedisCache.__init__ / connect: the client is kept when the ping
\* is answered and set to None when it is not
OutageInit ==
    /\ restaurants = SeedRestaurants
    /\ cache = EmptyCache
    /\ reachable \in BOOLEAN
    /\ DatabaseInit
    /\ MqttInit
    /\ redis_client = reachable
    /\ default_expiration = DEFAULT_EXPIRATION
    /\ last = NoCall
    /\ nops = 0
    /\ procs = NoProcs
    /\ rows = <<>>

\* the server stops answering
BackendFails ==
    /\ reachable
    /\ reachable' = FALSE
    /\ UNCHANGED <<restaurants, cache, redis_client, default_expiration, last, nops, procs, rows, database, mqtt>>

\* the server answers again
BackendRecovers ==
    /\ ~reachable
    /\ reachable' = TRUE
    /\ UNCHANGED <<restaurants, cache, redis_client, default_expiration, last, nops, procs, rows, database, mqtt>>

\* get_restaurant(restaurant_id) with the default use_cache=True
OutageGet(restaurant_id) ==
    \E r \in {get_restaurant(restaurant_id, TRUE,
                              IF reachable THEN {} ELSE {"get", "setex"})} :
        /\ cache' = r.cache
        /\ last' = [ReadCall("get_restaurant", TRUE, r) EXCEPT !.id = restaurant_id]
        /\ UNCHANGED <<restaurants, redis_client, default_expiration, nops, procs, rows, reachable, database, mqtt>>

\* every id keeps being asked for
SpecOutage ==
    /\ OutageInit
    /\ [][ \/ BackendFails
           \/ BackendRecovers
           \/ \E restaurant_id \in CallIds : OutageGet(restaurant_id)
           \/ AddRestaurant ]_vars
    /\ \A restaurant_id \in CallIds : WF_vars(OutageGet(restaurant_id))

(***************************************************************************)
(* The gateway's search over the record entries                            *)
(***************************************************************************)
\* the orders KEYS can list a set of keys in
Orders(keys) ==
    { o \in [1..Cardinality(keys) -> keys] : \A i, j \in DOMAIN o : i # j => o[i] # o[j] }

\* POST /cache/search of the gateway
GatewaySearchRestaurants ==
    \E a \in SearchCalls, connected \in BOOLEAN,
       keys \in Orders(redis_keys(cache, "restaurant:*")) :
        \E r \in {gateway_search_restaurants(connected, keys, a[1], a[2], a[3])} :
            /\ last' = [NoCall EXCEPT !.op = "gateway_search_restaurants",
                                      !.query = a[1], !.cuisine = a[2],
                                      !.min_rating = a[3], !.connected = connected,
                                      !.ret = r.ret, !.raised = r.raised,
                                      !.code = IF r.raised THEN 500 ELSE 200]
            /\ UNCHANGED <<restaurants, cache, redis_client, default_expiration, nops,
                           procs, rows, reachable, database, mqtt>>

SpecGateway ==
    /\ Init
    /\ [][ \/ \E restaurant_id \in CallIds \cup {"rest_003"} : OutageGet(restaurant_id)
           \/ SearchRestaurants
           \/ ForeignWrite
           \/ GatewaySearchRestaurants ]_vars

(***************************************************************************)
(* RestaurantDatabase: the dict objects it stores and stamps               *)
(***************************************************************************)
\* the ids uuid4 can give to two new records
DatabaseNewIds == NewIds \cup {"rest_4b7e2d10"}

\* the ids the callers update and delete: stored at the start, stored later,
\* never stored
DatabaseCallIds == {"rest_001", "rest_002"} \cup DatabaseNewIds \cup {"rest_404"}

\* what a caller puts into the dict it passes to add_restaurant
DatabaseRecords == { [name |-> "Pizza Plaza", rating |-> 45] }

\* what a caller puts into the dict it passes to update_restaurant: one
\* field, and fields the database sets itself
DatabaseUpdates ==
    { [rating |-> 39],
      [restaurant_id |-> "rest_002", created_at |-> 1, name |-> "Pizza Spoon"] }

\* the seeded objects are reachable through the database only; every other
\* object was made by a caller, who may still hold it
CallerObjects == {a \in DOMAIN heap : a > Len(SeedRestaurants)}

\* the argument of a call: a dict the caller makes for the call, or one of
\* held, the dicts it made for earlier calls; with the heap the call starts from
Arguments(contents, held) ==
    { [ref |-> Len(heap) + 1, heap |-> Append(heap, d)] : d \in contents }
    \cup { [ref |-> a, heap |-> heap] : a \in held }

\* RestaurantDatabase.add_restaurant(restaurant_data), restaurant_data being
\* the object at ref; new_id is what uuid4 gives, t1 and t2 what the two
\* calls of datetime.now() give
add_restaurant(h, ref, new_id, t1, t2) ==
    LET restaurant_data ==
            DictUpdate(h[ref], [restaurant_id |-> new_id, created_at |-> t1,
                                updated_at |-> t2, is_active |-> TRUE,
                                menu_items |-> DictGet(h[ref], "menu_items", <<>>)])
    IN  [ret |-> new_id,
         heap |-> [h EXCEPT ![ref] = restaurant_data],
         restaurants |-> [k \in DOMAIN db_restaurants \cup {new_id} |->
                             IF k = new_id THEN ref ELSE db_restaurants[k]]]

\* RestaurantDatabase.update_restaurant(restaurant_id, restaurant_data)
update_restaurant(h, restaurant_id, ref, t) ==
    IF restaurant_id \notin DOMAIN db_restaurants
    THEN [ret |-> FALSE, heap |-> h, restaurants |-> db_restaurants]
    ELSE LET stored == db_restaurants[restaurant_id]
             h1 == [h EXCEPT ![ref] = DictUpdate(@, [restaurant_id |-> restaurant_id])]
             h2 == [h1 EXCEPT ![ref] = DictUpdate(@, [updated_at |-> t])]
             h3 == [h2 EXCEPT ![ref] = DictUpdate(@, [created_at |-> h2[stored].created_at])]
         IN  [ret |-> TRUE,
              heap |-> [h3 EXCEPT ![stored] = DictUpdate(@, h3[ref])],
              restaurants |-> db_restaurants]

\* RestaurantDatabase.delete_restaurant(restaurant_id)
delete_restaurant(restaurant_id) ==
    IF restaurant_id \in DOMAIN db_restaurants
    THEN [ret |-> TRUE,
          restaurants |-> [k \in DOMAIN db_restaurants \ {restaurant_id} |-> db_restaurants[k]]]
    ELSE [ret |-> FALSE, restaurants |-> db_restaurants]

\* a call of the database: one more call, the rest of the program untouched
DatabaseStep ==
    /\ nops < MaxOps
    /\ nops' = nops + 1
    /\ UNCHANGED <<restaurants, cache, redis_client, default_expiration, procs, rows,
                   reachable, mqtt>>

\* add_restaurant, called with a dict of the caller's; the clock may move
\* between the two times it is read
DatabaseAdd(held) ==
    \E new_id \in DatabaseNewIds \ DOMAIN db_restaurants,
       arg \in Arguments(DatabaseRecords, held), d \in {0, 1} :
        \E r \in {add_restaurant(arg.heap, arg.ref, new_id, now, now + d)} :
            /\ DatabaseStep
            /\ now + d <= MaxClock
            /\ heap' = r.heap
            /\ db_restaurants' = r.restaurants
            /\ now' = now + d
            /\ last' = [NoCall EXCEPT !.op = "add_restaurant", !.id = r.ret, !.ok = TRUE]

DatabaseUpdate(held) ==
    \E restaurant_id \in DatabaseCallIds, arg \in Arguments(DatabaseUpdates, held) :
        \E r \in {update_restaurant(arg.heap, restaurant_id, arg.ref, now)} :
            /\ DatabaseStep
            /\ heap' = r.heap
            /\ db_restaurants' = r.restaurants
            /\ now' = now
            /\ last' = [NoCall EXCEPT !.op = "update_restaurant", !.id = restaurant_id,
                                      !.ok = r.ret]

DatabaseDelete ==
    \E restaurant_id \in DatabaseCallIds :
        \E r \in {delete_restaurant(restaurant_id)} :
            /\ DatabaseStep
            /\ db_restaurants' = r.restaurants
            /\ last' = [NoCall EXCEPT !.op = "delete_restaurant", !.id = restaurant_id,
                                      !.ok = r.ret]
            /\ UNCHANGED <<heap, now>>

\* time passes between two calls
ClockTick ==
    /\ now < MaxClock
    /\ now' = now + 1
    /\ UNCHANGED <<restaurants, cache, redis_client, default_expiration, last, nops, procs,
                   rows, reachable, db_restaurants, heap, mqtt>>

\* the callers pass whatever dict they hold
SpecDatabase ==
    /\ Init
    /\ [][ \/ DatabaseAdd(CallerObjects)
           \/ DatabaseUpdate(CallerObjects)
           \/ DatabaseDelete
           \/ ClockTick ]_vars

\* the callers make a new dict for every call, as the RPC handlers do
SpecDatabaseFresh ==
    /\ Init
    /\ [][ \/ DatabaseAdd({})
           \/ DatabaseUpdate({})
           \/ DatabaseDelete
           \/ ClockTick ]_vars

(***************************************************************************)
(* The MQTT order client: MQTTRestaurantOrderSystem and its broker         *)
(***************************************************************************)
MQTT_TOPIC == "restaurant/orders"

\* simulate_order_processing: the statuses an order goes through
statuses == <<"received", "preparing", "ready", "delivered">>

\* faulty variant of status_topic: the status updates go to the order topic
status_topic_orders == MQTT_TOPIC

\* simulate_order_processing: f"{MQTT_TOPIC}/status"
status_topic == MQTT_TOPIC \o "/status"

\* an order as publish_order and other publishers encode it
OrderText(fields) == json_dumps(DictVal(fields))

\* the payloads that arrive: two orders, an order without an id, an order
\* whose total is a string, JSON that is not an object, text that is not JSON
Payloads ==
    { OrderText([order_id |-> StrVal("order-1"), items |-> PyList(<<>>),
                 total_amount |-> FloatVal(435)]),
      OrderText([order_id |-> StrVal("order-2"), items |-> PyList(<<>>),
                 total_amount |-> IntVal(12)]),
      OrderText([customer_name |-> StrVal("John Doe")]),
      OrderText([order_id |-> StrVal("order-3"), total_amount |-> StrVal("43.47")]),
      json_dumps(PyList(<<>>)),
      InvalidText }

\* f"{order_id}" for what order_data.get('order_id') gives
OrderIdStr(order_id) == IF order_id.t = "NoneType" THEN "None" ELSE Format(order_id)

\* simulate_order_processing: the status update of one pass of the loop,
\* without its timestamp
status_update(order_id, status) ==
    DictVal([order_id |-> order_id, status |-> StrVal(status),
             message |-> StrVal("Order " \o OrderIdStr(order_id) \o " is now " \o status)])

\* the messages the publishers send: the payloads on the order topic, and
\* another client's status update on the status topic
Publications ==
    { [topic |-> MQTT_TOPIC, payload |-> p] : p \in Payloads }
    \cup { [topic |-> MQTT_TOPIC \o "/status",
            payload |-> json_dumps(status_update(StrVal("order-1"), "ready"))] }

\* the broker's match of a topic against a filter: the same topic, or a
\* filter that ends in the multi-level wildcard
TopicMatches(filter, topic) ==
    \/ filter = topic
    \/ /\ Len(filter) >= 2
       /\ SubSeq(filter, Len(filter) - 1, Len(filter)) = "/#"
       /\ \/ topic = SubSeq(filter, 1, Len(filter) - 2)
          \/ StartsWith(topic, SubSeq(filter, 1, Len(filter) - 1))

\* the broker forwards a PUBLISH to the client when a filter of the
\* client's matches its topic
Deliver(queue, message) ==
    IF \E filter \in subscriptions : TopicMatches(filter, message.topic)
    THEN Append(queue, message)
    ELSE queue

\* process_order: whether it gets to simulate_order_processing; an
\* exception on the way (order_data without get, len() of the items, the
\* .2f of the total) is logged and the order dropped
process_order(order_data) ==
    IF order_data.t # "dict" THEN FALSE
    ELSE LET items == DictGet(order_data.v[1], "items", PyList(<<>>))
             total_amount == DictGet(order_data.v[1], "total_amount", FloatVal(0))
         IN  /\ items.t \in {"list", "tuple", "dict", "str"}
             /\ total_amount.t \in {"float", "int", "bool"}

\* faulty variant of on_message: a payload that is not JSON is not caught
on_message_unguarded(payload) ==
    LET order_data == json_loads(payload)
    IN  IF order_data = DecodeError THEN [processing |-> FALSE, raised |-> TRUE]
        ELSE [processing |-> process_order(order_data), raised |-> FALSE]

\* on_message: whether the loop over the statuses is entered, and whether
\* an exception leaves the callback
on_message(payload) ==
    LET order_data == json_loads(payload)
    IN  IF order_data = DecodeError THEN [processing |-> FALSE, raised |-> FALSE]
        ELSE [processing |-> process_order(order_data), raised |-> FALSE]

\* one step of the client or the broker: the rest of the program untouched
MqttStep ==
    UNCHANGED <<restaurants, cache, redis_client, default_expiration, procs, rows,
                reachable, database>>

\* on_connect(rc): the CONNACK arrives, accepted or refused
OnConnect ==
    \E rc \in {0, 5} :
        /\ ~is_connected
        /\ is_connected' = (rc = 0)
        /\ subscriptions' = IF rc = 0 THEN subscriptions \cup {MQTT_TOPIC} ELSE subscriptions
        /\ last' = [NoCall EXCEPT !.op = "on_connect", !.code = rc]
        /\ MqttStep
        /\ UNCHANGED <<nops, inbox, received, published, handling>>

\* on_disconnect(rc): the session ends, and with it the broker's record of
\* the subscription (clean session)
OnDisconnect ==
    \E rc \in {0, 1} :
        /\ is_connected
        /\ is_connected' = FALSE
        /\ subscriptions' = {}
        /\ last' = [NoCall EXCEPT !.op = "on_disconnect", !.code = rc]
        /\ MqttStep
        /\ UNCHANGED <<nops, inbox, received, published, handling>>

\* publish_order, or any other publisher: a message reaches the broker
PublishOrder ==
    \E message \in Publications :
        /\ nops < MaxMessages
        /\ nops' = nops + 1
        /\ inbox' = Deliver(inbox, message)
        /\ last' = [NoCall EXCEPT !.op = "publish_order", !.text = message.payload,
                                  !.key = message.topic]
        /\ MqttStep
        /\ UNCHANGED <<is_connected, subscriptions, received, published, handling>>

\* the network loop calls on_message with the next message, once the
\* callback before it has returned
OnMessage ==
    /\ handling = 0
    /\ inbox # <<>>
    /\ \E r \in {on_message(Head(inbox).payload)} :
           /\ handling' = IF r.processing THEN 1 ELSE 0
           /\ last' = [NoCall EXCEPT !.op = "on_message", !.text = Head(inbox).payload,
                                     !.key = Head(inbox).topic, !.raised = r.raised]
    /\ received' = Append(received, Head(inbox))
    /\ inbox' = Tail(inbox)
    /\ MqttStep
    /\ UNCHANGED <<nops, is_connected, subscriptions, published>>

\* one pass of the loop of simulate_order_processing, after its sleep: the
\* status update is published, and the broker routes it
PublishStatus ==
    /\ handling > 0
    /\ Len(published) < Len(statuses) * (MaxMessages + 2)
    /\ \E message \in
           { [topic |-> status_topic,
              payload |-> json_dumps(status_update(
                              DictGet(json_loads(received[Len(received)].payload).v[1],
                                      "order_id", NoneVal),
                              statuses[handling]))] } :
           /\ published' = Append(published, message)
           /\ inbox' = Deliver(inbox, message)
           /\ last' = [NoCall EXCEPT !.op = "publish", !.text = message.payload,
                                     !.key = message.topic]
    /\ handling' = IF handling = Len(statuses) THEN 0 ELSE handling + 1
    /\ MqttStep
    /\ UNCHANGED <<nops, is_connected, subscriptions, received>>

SpecMqtt ==
    /\ Init
    /\ [][ \/ OnConnect
           \/ OnDisconnect
           \/ PublishOrder
           \/ OnMessage
           \/ PublishStatus ]_vars

\* the same, with the loop thread scheduled: a sleep returns and the next
\* status is published
SpecMqttLive ==
    /\ Init
    /\ [][ \/ OnConnect
           \/ OnDisconnect
           \/ PublishOrder
           \/ OnMessage
           \/ PublishStatus ]_vars
    /\ WF_vars(PublishStatus)

(***************************************************************************)
(* Properties                                                              *)
(***************************************************************************)
\* the keys as the claims name them
RecordKeyOf(id) == "restaurant:" \o id

ReadOps == {"get_restaurant", "get_all_restaurants", "search_restaurants"}

\* what the source returns for the arguments of the last read
SourceValue ==
    IF last.op = "get_restaurant"
    THEN PyOpt(db_get_restaurant(restaurants, last.id))
    ELSE IF last.op = "get_all_restaurants"
    THEN PyList(db_get_all_restaurants(restaurants))
    ELSE PyList(db_search_restaurants(restaurants, last.query, last.cuisine,
                                      last.min_rating))

\* C1: read-through population.  When get_restaurant(id) finds the backend
\* available and no entry for id, and id is in the source, it returns the
\* source's record and leaves a non-empty entry under restaurant:<id> whose
\* decoded payload is that record.
C1_ReadThroughPopulation ==
    (/\ last.op = "get_restaurant"
     /\ last.miss
     /\ ~last.backend_error
     /\ IndexOf(restaurants, last.id) # 0)
    => LET record == restaurants[IndexOf(restaurants, last.id)]
       IN  /\ ~last.raised
           /\ last.ret = PyDict(record)
           /\ redis_get(cache, RecordKeyOf(last.id)) # None
           /\ _deserialize_data(cache[RecordKeyOf(last.id)].payload) = ObjectOf(PyDict(record))

C1_Witness ==
    /\ last.op = "get_restaurant"
    /\ last.miss
    /\ ~last.backend_error
    /\ last.wrote
    /\ last.id = "rest_001"
    /\ last.ret.t = "dict"

\* C2: fail-open reads.  When the connection failed at construction, or a
\* backend call raised during the call, get_restaurant, get_all_restaurants
\* and search_restaurants return exactly what the source returns for the same
\* arguments, and raise nothing.
C2_FailOpenReads ==
    (last.op \in ReadOps /\ (~redis_client \/ last.backend_error))
    => (~last.raised /\ last.ret = SourceValue)

C2_Witness ==
    /\ last.op = "get_restaurant"
    /\ redis_client
    /\ last.get_raised
    /\ last.setex_raised
    /\ last.ret.t = "dict"
    /\ RecordKeyOf(last.id) \in DOMAIN cache

\* C3 (as claimed): no negative caching.  get_restaurant(id) for an id that is
\* not in the source returns not-found and writes no entry for id; and the
\* get_restaurant(id) that follows the insertion of id returns the new record.
C3_NoNegativeCaching ==
    [][ /\ ( last'.op = "get_restaurant" /\ IndexOf(restaurants', last'.id) = 0 )
            => ( last'.ret = PyNone /\ ~last'.wrote
                 /\ RecordKeyOf(last'.id) \notin DOMAIN cache' \ DOMAIN cache )
        /\ ( /\ last.op = "add_restaurant"
             /\ last'.op = "get_restaurant"
             /\ last'.id = last.id )
            => last'.ret = PyOpt(db_get_restaurant(restaurants', last.id)) ]_vars

\* C4: invalidation cascade.  When invalidate_restaurant_cache(id) completes
\* with the backend available, the backend holds no record entry for id, no
\* bulk-listing entry and no entry in the search namespace; the record entries
\* of the other ids are as they were.
C4_InvalidationCascade ==
    [][ ( /\ last'.op = "invalidate_restaurant_cache"
          /\ redis_client
          /\ ~last'.backend_error )
        => ( /\ RecordKeyOf(last'.id) \notin DOMAIN cache'
             /\ "restaurants:all" \notin DOMAIN cache'
             /\ \A k \in DOMAIN cache' : ~StartsWith(k, "search:")
             /\ \A k \in DOMAIN cache :
                   (StartsWith(k, "restaurant:") /\ k # RecordKeyOf(last'.id))
                   => (k \in DOMAIN cache' /\ cache'[k] = cache[k])
             /\ ~last'.raised ) ]_vars

C4_Witness ==
    /\ last.op = "invalidate_restaurant_cache"
    /\ redis_client
    /\ ~last.backend_error
    /\ last.ok
    /\ last.removed >= 2

\* C5 (as claimed): coherence after service writes.  A successful update or
\* delete of a record leaves the cache invalidated for that id (no record
\* entry for it, no bulk listing, no search entry), and every get_restaurant
\* returns the source's current record.
C5_CoherenceAfterWrites ==
    /\ ( (last.op \in {"update_restaurant", "delete_restaurant"} /\ last.ok)
         => ( /\ RecordKeyOf(last.id) \notin DOMAIN cache
              /\ "restaurants:all" \notin DOMAIN cache
              /\ \A k \in DOMAIN cache : ~StartsWith(k, "search:") ) )
    /\ ( last.op = "get_restaurant" => last.ret = SourceValue )

\* C6: tiered TTL.  With base TTL B = default_expiration, an entry written by
\* get_restaurant has TTL B, one written by get_all_restaurants has TTL B div 2
\* and one written by search_restaurants has TTL B div 4; for B = 3600 these
\* are 3600, 1800 and 900.
C6_TieredTTL ==
    (last.op \in ReadOps /\ last.wrote)
    => LET B == default_expiration
           t == cache[last.key].ttl
       IN  /\ last.op = "get_restaurant" =>
                (last.key = RecordKeyOf(last.id) /\ t = B /\ (B = 3600 => t = 3600))
           /\ last.op = "get_all_restaurants" =>
                (last.key = "restaurants:all" /\ 2 * t <= B /\ B < 2 * t + 2
                 /\ (B = 3600 => t = 1800))
           /\ last.op = "search_restaurants" =>
                (StartsWith(last.key, "search:") /\ 4 * t <= B /\ B < 4 * t + 4
                 /\ (B = 3600 => t = 900))

C6_Witness ==
    /\ last.op = "get_all_restaurants"
    /\ last.wrote
    /\ default_expiration = 7
    /\ cache["restaurants:all"].ttl = 3

\* C7 (as claimed): serialization failures propagate.  A read whose stored
\* payload cannot be decoded fails with an error the caller sees; it is not
\* replaced by a read of the source.
C7_SerializationFailuresPropagate ==
    (last.op \in ReadOps /\ last.decode_failed)
    => (last.raised /\ ~last.db_queried)

\* C8: key determinism.  The key composed from a prefix, an identifier and
\* keyword arguments is the key composed from the same prefix, identifier and
\* the same keyword arguments supplied in any other order.
C8_KeyDeterminism ==
    last.op = "_generate_cache_key"
    => \A kwargs \in KwargSeqs :
          {kwargs[i] : i \in 1..Len(kwargs)}
             = {last.kwargs[i] : i \in 1..Len(last.kwargs)}
          => _generate_cache_key(last.prefix, last.id, kwargs) = last.key

C8_Witness ==
    /\ last.op = "_generate_cache_key"
    /\ Len(last.kwargs) = 3
    /\ last.kwargs[1].k = "min_rating"
    /\ last.kwargs[3].k = "city"
    /\ last.key = "search:7cf2db5e:city:Downtown_cuisine:any_min_rating:4.0"

\* C9: search filter composition.  A search that is not served from the cache
\* returns exactly the source records whose name or description contains the
\* query (case-insensitively), whose cuisine equals the filter
\* (case-insensitively) when one is supplied, and whose rating is at least
\* min_rating: each once, no other, none missing.
C9_SearchFilterComposition ==
    (last.op = "search_restaurants" /\ ~last.hit)
    => LET Selected(r) ==
               /\ \/ Contains(Lower(last.query), Lower(r.name))
                  \/ Contains(Lower(last.query), Lower(r.description))
               /\ (last.cuisine # None /\ last.cuisine[1] # "")
                     => Lower(r.cuisine_type) = Lower(last.cuisine[1])
               /\ r.rating >= last.min_rating
           want == {i \in 1..Len(restaurants) : Selected(restaurants[i])}
       IN  /\ last.ret.t = "list"
           /\ {last.ret.v[i] : i \in 1..Len(last.ret.v)} = {restaurants[i] : i \in want}
           /\ Len(last.ret.v) = Cardinality(want)

C9_Witness ==
    /\ last.op = "search_restaurants"
    /\ last.miss
    /\ last.query = "a"
    /\ last.cuisine = Some("Italian")
    /\ Len(restaurants) >= 3
    /\ Len(last.ret.v) = 1
    /\ last.ret.v[1].restaurant_id = "rest_001"

\* C10: search de-duplication.  A search_restaurants call made while the entry
\* an earlier call with the same query, cuisine filter and minimum rating
\* wrote is still there returns the result that call returned, does not query
\* the source, and leaves the keyspace as it was: one entry for the call.
C10_SearchDeduplication ==
    [][ LET k == SearchKeyOf[last'.query][last'.cuisine][last'.min_rating]
        IN  ( /\ last'.op = "search_restaurants"
              /\ last'.use_cache
              /\ redis_client
              /\ ~last'.get_raised
              /\ k \in DOMAIN cache
              /\ cache[k].payload # InvalidText )
            => ( /\ last'.hit
                 /\ ~last'.db_queried
                 /\ last'.ret = cache[k].src
                 /\ cache' = cache
                 /\ Cardinality({j \in DOMAIN cache' : j = k}) = 1 ) ]_vars

C10_Witness ==
    /\ last.op = "search_restaurants"
    /\ last.hit
    /\ last.query = "pizza"
    /\ last.ret = PyList(<<>>)

\* C11: concurrent misses are safe.  When two threads have both missed on the
\* key of one id and both calls are over, each returned what the source holds
\* for the id, neither raised, and (the id being in the source and a SETEX
\* having gone through) the backend holds that key alone, with the source's
\* record as its payload and the record tier's TTL.
C11_ConcurrentMissesSafe ==
    \A c, d \in Callers :
        ( /\ c # d
          /\ procs[c].pc = "done" /\ procs[d].pc = "done"
          /\ procs[c].id = procs[d].id
          /\ procs[c].miss /\ procs[d].miss )
        => LET id == procs[c].id
               value == PyOpt(db_get_restaurant(restaurants, id))
           IN  /\ procs[c].ret = value /\ procs[d].ret = value
               /\ ~procs[c].raised /\ ~procs[d].raised
               /\ ( IndexOf(restaurants, id) # 0
                    /\ ~(procs[c].setex_raised /\ procs[d].setex_raised) )
                  => ( /\ DOMAIN cache = {RecordKeyOf(id)}
                       /\ _deserialize_data(cache[RecordKeyOf(id)].payload) = ObjectOf(value)
                       /\ cache[RecordKeyOf(id)].ttl = default_expiration )
               /\ IndexOf(restaurants, id) = 0 => DOMAIN cache = {}

C11_Witness ==
    /\ procs["t1"].pc = "done" /\ procs["t2"].pc = "done"
    /\ procs["t1"].id = "rest_001" /\ procs["t2"].id = "rest_001"
    /\ procs["t1"].miss /\ procs["t2"].miss
    /\ ~procs["t1"].setex_raised /\ ~procs["t2"].setex_raised
    /\ procs["t1"].ret.t = "dict"
    /\ RecordKeyOf("rest_001") \in DOMAIN cache

\* C12: expiry behaves as absence.  No entry of the keyspace has run out of
\* time; and the read of a key that follows the expiry of its entry is a miss:
\* it is not a hit, reads the source and returns its value, and writes what a
\* miss on an absent key writes (a found value, under a TTL of at least one
\* second), with the tier's full TTL.
C12_ExpiryIsAbsence ==
    /\ \A k \in DOMAIN cache : cache[k].ttl >= 1
    /\ (last.op \in ReadOps /\ last.after_expiry)
       => LET B == default_expiration
              tier == IF last.op = "get_restaurant" THEN B
                      ELSE IF last.op = "get_all_restaurants" THEN B \div 2
                      ELSE B \div 4
          IN  /\ ~last.hit /\ ~last.raised /\ last.db_queried
              /\ last.ret = SourceValue
              /\ (last.use_cache /\ redis_client /\ ~last.get_raised) => last.miss
              /\ last.wrote <=> ( /\ redis_client
                                  /\ ~last.setex_raised
                                  /\ (last.op = "search_restaurants" \/ Truthy(last.ret)) )
              /\ last.wrote => ( /\ cache[last.key].ttl = tier
                                 /\ tier >= 1
                                 /\ _deserialize_data(cache[last.key].payload)
                                      = ObjectOf(last.ret) )

C12_Witness ==
    /\ last.op = "get_restaurant"
    /\ last.after_expiry
    /\ last.miss
    /\ last.wrote
    /\ cache[last.key].ttl = 3600

\* C13: the hit path skips the source.  A get_restaurant(id) made with the
\* cache in use, the backend answering, and the entry an earlier
\* get_restaurant(id) wrote still in place returns the value that call
\* returned, does not query the source, raises nothing and leaves the keyspace
\* as it was.
C13_HitPathSkipsSource ==
    [][ LET k == RecordKeyOf(last'.id)
        IN  ( /\ last'.op = "get_restaurant"
              /\ last'.use_cache
              /\ redis_client
              /\ ~last'.get_raised
              /\ k \in DOMAIN cache
              /\ cache[k].payload # InvalidText )
            => ( /\ last'.hit
                 /\ ~last'.db_queried
                 /\ ~last'.raised
                 /\ last'.ret = cache[k].src
                 /\ cache' = cache ) ]_vars

C13_Witness ==
    /\ last.op = "get_restaurant"
    /\ last.hit
    /\ ~last.db_queried
    /\ last.id = "rest_002"
    /\ last.ret = PyDict(SeedRestaurants[2])

\* C14: clearAll empties the cache.  When clear_all_cache completes with the
\* backend available, the keyspace holds no key of the record, bulk-listing
\* or search namespace, whatever it held before.
C14_ClearAllEmpties ==
    [][ ( /\ last'.op = "clear_all_cache"
          /\ redis_client
          /\ ~last'.backend_error )
        => ( /\ \A k \in DOMAIN cache' :
                   /\ ~StartsWith(k, "restaurant:")
                   /\ ~StartsWith(k, "restaurants:")
                   /\ ~StartsWith(k, "search:")
             /\ ~last'.raised
             /\ last'.ok <=> (DOMAIN cache # {}) ) ]_vars

C14_Witness ==
    /\ last.op = "clear_all_cache"
    /\ redis_client
    /\ ~last.backend_error
    /\ last.ok
    /\ last.removed >= 2
    /\ DOMAIN cache = {}

\* C15: stats are read-only.  get_cache_stats (the cache service's and the
\* gateway wrapper's) leaves the set of keys, every payload and every
\* remaining TTL as they were, in every cache state, whether it succeeds or
\* fails.
C15_StatsReadOnly ==
    [][ last'.op \in {"get_cache_stats", "gateway_get_cache_stats"}
        => ( /\ DOMAIN cache' = DOMAIN cache
             /\ \A k \in DOMAIN cache :
                   /\ cache'[k].payload = cache[k].payload
                   /\ cache'[k].ttl = cache[k].ttl
             /\ ~last'.raised ) ]_vars

C15_Witness ==
    /\ last.op = "get_cache_stats"
    /\ last.status = "Connected"
    /\ last.counts = <<1, 0, 0>>
    /\ \E k \in DOMAIN cache : cache[k].ttl = 3599

\* C16 (as claimed): invalidation is idempotent.  invalidate_restaurant_cache
\* raises nothing; a second call for the same id right after a completed one
\* changes nothing; and a call made when no entry exists for the id is a
\* no-op: the keyspace is left as it was.
C16_InvalidationIdempotentNoOp ==
    [][ last'.op = "invalidate_restaurant_cache"
        => ( /\ ~last'.raised
             /\ ( /\ last.op = "invalidate_restaurant_cache"
                  /\ last.id = last'.id
                  /\ ~last.backend_error )
                => cache' = cache
             /\ RecordKeyOf(last'.id) \notin DOMAIN cache => cache' = cache ) ]_vars

\* C16 (amended): invalidate_restaurant_cache raises nothing; a second call
\* for the same id right after a completed one changes nothing and returns
\* False; a call made when no record entry exists for the id returns False
\* and leaves every record entry as it was, while the bulk-listing entry and
\* the search entries are deleted all the same.
C16_InvalidationIdempotent ==
    [][ last'.op = "invalidate_restaurant_cache"
        => ( /\ ~last'.raised
             /\ ( /\ last.op = "invalidate_restaurant_cache"
                  /\ last.id = last'.id
                  /\ ~last.backend_error )
                => (cache' = cache /\ ~last'.ok)
             /\ RecordKeyOf(last'.id) \notin DOMAIN cache
                => ( /\ ~last'.ok
                     /\ \A k \in DOMAIN cache :
                           StartsWith(k, "restaurant:")
                           => (k \in DOMAIN cache' /\ cache'[k] = cache[k])
                     /\ (redis_client /\ ~last'.backend_error)
                        => \A k \in DOMAIN cache' : StartsWith(k, "restaurant:") ) ) ]_vars

C16_Witness ==
    /\ last.op = "invalidate_restaurant_cache"
    /\ redis_client
    /\ ~last.backend_error
    /\ ~last.ok
    /\ last.removed >= 1
    /\ DOMAIN cache # {}

\* C17: administrative operations never surface a backend outage.  With the
\* backend unreachable (no connection was made, or the call's first backend
\* request raises, as a timed-out one does), invalidate_restaurant_cache and
\* clear_all_cache return False, get_cache_stats returns a status that
\* describes the outage, the keyspace is not touched and nothing is raised;
\* and whichever backend request of an invalidation or a clear raises, the
\* call returns False and raises nothing.
C17_AdminOpsOnOutage ==
    /\ ( /\ last.op \in {"invalidate_restaurant_cache", "clear_all_cache", "get_cache_stats"}
         /\ (~redis_client \/ last.fail_at = 1) )
       => ( /\ ~last.raised
            /\ last.removed = 0
            /\ last.op \in {"invalidate_restaurant_cache", "clear_all_cache"} => ~last.ok
            /\ last.op = "get_cache_stats"
                 => ( /\ last.status = IF redis_client THEN "Error" ELSE "Redis not available"
                      /\ last.counts = <<>> ) )
    /\ ( /\ last.op \in {"invalidate_restaurant_cache", "clear_all_cache"}
         /\ last.backend_error )
       => (~last.raised /\ ~last.ok)

C17_Witness ==
    /\ last.op = "clear_all_cache"
    /\ redis_client
    /\ last.fail_at = 1
    /\ last.backend_error
    /\ ~last.ok
    /\ DOMAIN cache # {}

\* C19 (as claimed): the gateway's clear is a pass-through of clearAll.  When
\* RestaurantCache.clear_cache completes with the backend available, the
\* keyspace is what clear_all_cache leaves of the same keyspace: no key of the
\* record, bulk-listing or search namespace.
C19_GatewayClearIsClearAll ==
    [][ ( /\ last'.op = "clear_cache"
          /\ last'.connected
          /\ ~last'.backend_error )
        => ( /\ cache' = ClearLoop(ClearPatterns,
                                   [cache |-> cache, calls |-> 0, deleted_count |-> 0,
                                    failed |-> FALSE], 0).cache
             /\ \A k \in DOMAIN cache' :
                   /\ ~StartsWith(k, "restaurant:")
                   /\ ~StartsWith(k, "restaurants:")
                   /\ ~StartsWith(k, "search:") ) ]_vars

\* C18: codec round trip.  For every object the source can return (None, a
\* record, a list of records), decoding what _serialize_data made of it gives
\* the object back.
C18_CodecRoundTrip ==
    (last.op = "_deserialize_data" /\ last.arg \in SourceObjects)
    => ( /\ last.ret = last.arg
         /\ _deserialize_data(_serialize_data(last.arg)) = last.arg )

C18_Witness ==
    /\ last.op = "_deserialize_data"
    /\ last.arg = [t |-> "list", v |-> <<FullRecord, ObjectOfRecord(SeedRestaurants[1])>>]
    /\ last.text.j = "array"
    /\ last.text.v[1].v[1].menu_items.v[1].v[1].price.lit = "22.0"
    /\ last.text.v[1].v[1].menu_items.v[2].v[1].price.lit = "12.5"
    /\ last.ret.v[1].v[1].reviews.v[1].v[1].rating = IntVal(5)

\* C20: rating invariant.  In the Django table and in the gRPC service's
\* store every record has a rating between 0.0 and 5.0, and a create/add or
\* update request that carries a rating outside that range is rejected.
C20_RatingInvariant ==
    /\ \A i \in DOMAIN rows : validate_rating(rows[i].rating)
    /\ \A i \in DOMAIN restaurants : validate_rating(restaurants[i].rating)
    /\ ( /\ last.op \in {"AddRestaurant", "UpdateRestaurant", "create", "update"}
         /\ ~validate_rating(last.rating) )
       => ~last.ok

\* C21: rejected creates change nothing.  A create request with a blank
\* name, a blank phone number or a rating outside 0.0..5.0 is answered with
\* status 400, success false and the errors of exactly the offending fields,
\* and the table is the same after the request as before it.
C21_RejectedCreateChangesNothing ==
    [][ ( /\ nops' = nops + 1
          /\ last'.op = "create"
          /\ LET data == last'.request[1]
             IN  \/ Blank(data.name)
                 \/ Blank(data.phone_number)
                 \/ data.rating < 0 \/ data.rating > 50 )
        => ( /\ last'.code = 400
             /\ ~last'.ok
             /\ last'.errors # {}
             /\ LET data == last'.request[1]
                IN  /\ ("name" \in last'.errors) = Blank(data.name)
                    /\ ("phone_number" \in last'.errors) = Blank(data.phone_number)
                    /\ ("rating" \in last'.errors) = (data.rating < 0 \/ data.rating > 50)
             /\ rows' = rows ) ]_vars

C21_Witness ==
    /\ last.op = "create"
    /\ last.code = 400
    /\ last.errors = {"name", "rating"}
    /\ last.request[1].rating = 51
    /\ Len(rows) = 1

\* C22: revenue sum.  For a list of well-formed orders the function raises
\* nothing and returns the sum of quantity times price_per_item rounded to
\* two decimals: a hundredth nearest to the exact sum, and the exact sum when
\* that has two decimals; for the empty list it returns 0.0.
C22_RevenueSum ==
    ( /\ last.op = "calculate_total_revenue"
      /\ last.arg.t = "list"
      /\ \A i \in 1..Len(last.arg.v) : last.arg.v[i] \in WellFormedOrders )
    => LET sum == SumOfOrders(last.arg.v)
       IN  /\ last.exception = ""
           /\ 10 * last.total - sum \in -5..5
           /\ (sum % 10 = 0) => (10 * last.total = sum)
           /\ (Len(last.arg.v) = 0) => (last.total = 0)

C22_Witness ==
    /\ last.op = "calculate_total_revenue"
    /\ last.arg.t = "list"
    /\ last.arg.v = << Order(StrVal("Pizza"), IntVal(2), Float3(15990)),
                       Order(StrVal("Burger"), IntVal(1), Float3(8500)),
                       Order(StrVal("Soda"), IntVal(3), Float3(2990)) >>
    /\ last.total = 4945

\* C23: revenue type guard.  For an argument that is neither a list nor None
\* the function raises TypeError.
C23_RevenueTypeGuard ==
    ( /\ last.op = "calculate_total_revenue"
      /\ last.arg.t \notin {"list", "NoneType"} )
    => last.exception = "TypeError"

\* C24: no stale re-population.  Once the writer's update and invalidation
\* of a record and every get_restaurant call have completed, the backend
\* holds no entry for the record whose payload differs from the source's
\* current record.
C24_NoStaleRepopulation ==
    ( /\ last.op = "invalidate_restaurant_cache"
      /\ \A c \in Callers : procs[c].pc \in {"idle", "done"} )
    => ( \/ RecordKeyOf(last.id) \notin DOMAIN cache
         \/ _deserialize_data(cache[RecordKeyOf(last.id)].payload)
              = ObjectOf(PyOpt(db_get_restaurant(restaurants, last.id))) )

\* C25: bypass reads do not touch the cache.  A read called with
\* use_cache=False returns the source's value and leaves every entry and
\* every remaining TTL as it was.
C25_BypassReadsLeaveCache ==
    [][ ( /\ nops' = nops + 1
          /\ last'.op \in ReadOps
          /\ ~last'.use_cache )
        => ( /\ last'.ret = SourceValue'
             /\ cache' = cache ) ]_vars

\* C26: search keys do not collide.  With the source unchanged, a search
\* that finds a cached result finds the result the source gives for its own
\* query, cuisine filter and minimum rating.
C26_SearchKeysDoNotCollide ==
    (last.op = "search_restaurants" /\ last.hit) => last.ret = SourceValue

\* C27: invalidation result matches its effect.  Whenever
\* invalidate_restaurant_cache returns False the cache is as it was before
\* the call, and whenever the call removed an entry it returns True.
C27_InvalidationResultMatchesEffect ==
    [][ ( nops' = nops + 1 /\ last'.op = "invalidate_restaurant_cache" )
        => ( /\ ~last'.ok => cache' = cache
             /\ (DOMAIN cache \ DOMAIN cache' # {}) => last'.ok ) ]_vars

\* C28: inserts become visible in listings.  The get_all_restaurants call
\* that follows the insertion of a record, and the search_restaurants call
\* that follows it with a filter the record matches, return a list that
\* holds the record.
C28_InsertsVisibleInListings ==
    [][ ( /\ last.op = "add_restaurant"
          /\ nops' = nops + 1
          /\ \/ last'.op = "get_all_restaurants"
             \/ /\ last'.op = "search_restaurants"
                /\ SearchKeeps(restaurants[IndexOf(restaurants, last.id)],
                               last'.query, last'.cuisine, last'.min_rating) )
        => ( /\ last'.ret.t = "list"
             /\ \E i \in 1..Len(last'.ret.v) :
                   last'.ret.v[i] = restaurants[IndexOf(restaurants, last.id)] ) ]_vars

\* C29: every tier gets a usable TTL.  With a positive base TTL, a read that
\* went to the source with the backend connected passes a TTL of at least 1
\* second to its write, whichever tier it writes.
C29_UsableTTL ==
    ( /\ last.op \in ReadOps
      /\ last.db_queried
      /\ redis_client
      /\ default_expiration >= 1 )
    => last.ttl >= 1

\* C30: caching resumes after an outage.  If from some time on the backend
\* stays reachable, whether it was unreachable at construction or later,
\* then get_restaurant calls keep hitting the cache.
C30_CachingResumes ==
    (<>[]reachable) => []<>(last.op = "get_restaurant" /\ last.hit)

\* C31 (as claimed): partial update frame.  An update of an existing record
\* that goes through PUT /restaurant/update (and so through the
\* UpdateRestaurant RPC) leaves every field the body did not supply at its
\* previous value.
C31_PartialUpdateFrame ==
    [][ (last'.op = "PUT /restaurant/update" /\ last'.ok) =>
            \A f \in DOMAIN restaurants[IndexOf(restaurants, last'.id)]
                       \ (DOMAIN last'.request[1] \cup {"restaurant_id"}) :
                restaurants'[IndexOf(restaurants', last'.id)][f]
                    = restaurants[IndexOf(restaurants, last'.id)][f] ]_vars

\* C31, the part that holds: RestaurantDatabase.update_restaurant itself
\* keeps every field the caller's dictionary does not have.
C31_DatabaseUpdateFrame ==
    [][ \A restaurant_id \in CallIds, restaurant_data \in Updates \cup PartialUpdates :
            IndexOf(restaurants, restaurant_id) # 0 =>
                LET old == restaurants[IndexOf(restaurants, restaurant_id)]
                    rs == db_update_restaurant(restaurants, restaurant_id, restaurant_data)
                IN  \A f \in DOMAIN old \ DOMAIN restaurant_data :
                        rs[IndexOf(rs, restaurant_id)][f] = old[f] ]_vars

\* the records of a list, as a set
Records(list) == {list.v[i] : i \in 1..Len(list.v)}

\* every record of the source has an entry under its record key
AllRecordsCached ==
    \A i \in 1..Len(restaurants) : RecordKeyOf(restaurants[i].restaurant_id) \in DOMAIN cache

\* C33 (as claimed): gateway search agrees with the service search.  When
\* every source record is cached under its record key, what the gateway's
\* search returned is, as a set, what the service's search returns for the
\* same arguments.
C33_GatewaySearchAgrees ==
    (last.op = "gateway_search_restaurants" /\ last.connected /\ AllRecordsCached) =>
        /\ ~last.raised
        /\ Records(last.ret)
              = Records(search_restaurants(last.query, last.cuisine, last.min_rating,
                                           TRUE, {}).ret)

\* the record stored under a key
StoredRecord(k) == heap[db_restaurants[k]]

\* C32 (as claimed): identity and timestamps.  In every state each stored
\* record's restaurant_id is the key it is stored under and its updated_at
\* is not earlier than its created_at; no call changes the restaurant_id
\* or the created_at of a record that stays stored; an update or delete of
\* an absent id returns False and leaves the stored records as they were.
C32_IdentityAndTimestamps ==
    /\ [](\A k \in DOMAIN db_restaurants :
             /\ StoredRecord(k).restaurant_id = k
             /\ StoredRecord(k).updated_at >= StoredRecord(k).created_at)
    /\ [][ \A k \in DOMAIN db_restaurants \cap DOMAIN db_restaurants' :
               /\ heap'[db_restaurants'[k]].restaurant_id = StoredRecord(k).restaurant_id
               /\ heap'[db_restaurants'[k]].created_at = StoredRecord(k).created_at ]_vars
    /\ [][ (/\ nops' = nops + 1
            /\ last'.op \in {"update_restaurant", "delete_restaurant"}
            /\ last'.id \notin DOMAIN db_restaurants) =>
               /\ ~last'.ok
               /\ DOMAIN db_restaurants' = DOMAIN db_restaurants
               /\ \A k \in DOMAIN db_restaurants :
                      heap'[db_restaurants'[k]] = StoredRecord(k) ]_vars

\* what a status update on the wire says: its topic, order_id and status
StatusView(message) ==
    [topic |-> message.topic,
     order_id |-> json_loads(message.payload).v[1].order_id,
     status |-> json_loads(message.payload).v[1].status.s]

\* the order_id of a received order, None when it has none
OrderIdOf(message) ==
    IF json_loads(message.payload).t = "dict"
    THEN DictGet(json_loads(message.payload).v[1], "order_id", NoneVal)
    ELSE NoneVal

\* the first n of the four status updates an order is to get
StatusesFor(message, n) ==
    [i \in 1..n |-> [topic |-> "restaurant/orders/status", order_id |-> OrderIdOf(message),
                     status |-> StrVal(statuses[i]).s]]

RECURSIVE StatusesForAll(_, _)
\* the status updates, in order, of those messages of a sequence that are
\* among counted
StatusesForAll(messages, counted) ==
    IF messages = <<>> THEN <<>>
    ELSE (IF messages[1] \in counted THEN StatusesFor(messages[1], Len(statuses)) ELSE <<>>)
         \o StatusesForAll(Tail(messages), counted)

\* what was published so far, when the messages that count get their four
\* status updates one message after the other
PublishedAsExpected(counted) ==
    [i \in 1..Len(published) |-> StatusView(published[i])]
        = IF handling = 0 THEN StatusesForAll(received, counted)
          ELSE StatusesForAll(SubSeq(received, 1, Len(received) - 1), counted)
               \o StatusesFor(received[Len(received)], handling - 1)

\* the received messages whose payload is valid JSON
ValidJson == {received[i] : i \in {k \in DOMAIN received : json_loads(received[k].payload) # DecodeError}}

\* the received messages process_order accepts
Processed == {received[i] : i \in {k \in DOMAIN received : on_message(received[k].payload).processing}}

\* C34 (as claimed): order status sequence.  What the client has published
\* is, for each received message whose payload is valid JSON, in the order
\* of their arrival, the four status updates received, preparing, ready,
\* delivered on restaurant/orders/status with that order's order_id (a
\* prefix of the four for the message being handled), nothing interleaved.
C34_OrderStatusSequence == PublishedAsExpected(ValidJson)

\* C34, the part that holds: the same for the messages process_order accepts.
C34_ProcessedOrdersSequence ==
    PublishedAsExpected(Processed)

\* C35: malformed messages are contained.  When on_message is called with
\* a payload that is not valid JSON, nothing is published, no exception
\* leaves the callback, and the callback has returned with the rest of the
\* inbox in place, so that the next message can be handled; the client is
\* never inside the loop over the statuses for such a message.
C35_MalformedContained ==
    /\ [][ (/\ Len(received') = Len(received) + 1
            /\ json_loads(received'[Len(received')].payload) = DecodeError) =>
               /\ published' = published
               /\ ~last'.raised
               /\ handling' = 0
               /\ inbox' = Tail(inbox) ]_vars
    /\ [](handling > 0 => json_loads(received[Len(received)].payload) # DecodeError)

\* a malformed message was received, and the order that came after it has
\* had its four status updates
C35_Witness ==
    /\ Len(received) = 2
    /\ json_loads(received[1].payload) = DecodeError
    /\ on_message(received[2].payload).processing
    /\ handling = 0
    /\ Len(published) = Len(statuses)

\* the messages of a sequence, as a set
Messages(queue) == {queue[i] : i \in DOMAIN queue}

\* C36: no feedback loop.  No status update the client published is ever
\* delivered to it or handed to its on_message; the client has published
\* at most four messages for each message it received; and whenever it is
\* handling an order it gets to the end of that order's handling.
C36_NoFeedbackLoop ==
    /\ [](Messages(published) \cap (Messages(inbox) \cup Messages(received)) = {})
    /\ [](Len(published) <= Len(statuses) * Len(received))
    /\ (handling > 0 ~> handling = 0)

\* the client is subscribed, has handled one order to the end and published
\* its four status updates, and nothing waits in its inbox
C36_Witness ==
    /\ is_connected
    /\ Len(received) = 1
    /\ Len(published) = Len(statuses)
    /\ handling = 0
    /\ inbox = <<>>

====
